---- MODULE Spec2Model ----
(***************************************************************************)
(* Retrieval subsystem of the SpectroScience course backends:              *)
(*   - the knowledge base store (auto_sync_course.py save_knowledge_base,  *)
(*     and the snapshot load of app.py / app_fixed.py),                    *)
(*   - the embedding retriever (app_working.py),                           *)
(*   - the lexical retriever (app.py search_knowledge_base),               *)
(*   - the content scanner (auto_sync_course.py scan_course_structure).    *)
(* A Python str is a sequence of one-character strings, so that substring, *)
(* split, suffix and byte order are computed and not assumed.              *)
(***************************************************************************)
EXTENDS Integers, Sequences, FiniteSets, TLC

VARIABLES
    \* ---- knowledge base store (files on disk, the sync job, the backends)
    primary,        \* KNOWLEDGE_BASE_FILE
    backup,         \* KNOWLEDGE_BASE_FILE + ".backup"
    training_log,   \* TRAINING_LOG_FILE
    sv_pc,          \* position inside save_knowledge_base
    sv_lessons,     \* its argument
    sv_ret,         \* its outcome: "none", "True", "False", "crashed"
    prior,          \* what a load returned when the save started (history)
    ever_saved,     \* some save has returned True (history)
    kb_app,         \* app.py: knowledge_base
    app_state,      \* app.py: "down", "up"
    kb_fixed,       \* app_fixed.py: knowledge_base
    fixed_state,    \* app_fixed.py: "down", "up", "crashed"
    loaded_since,   \* the backends (re)started since the last save ended
    n_saves,        \* number of save_knowledge_base calls so far
    \* ---- embedding retriever (app_working.py)
    knowledge_base, \* the corpus: a list of documents
    faiss_index,    \* None, or an index holding a list of vectors
    ld_pc,          \* position inside load_course_materials
    ld_listing,     \* the objects list_objects_v2 returns
    ld_i,           \* the object the loop of load_course_materials is at
    ld_reported,    \* the keys printed by line 68, in order
    up_pc,          \* position inside upload_file
    up_emb,         \* upload_file: its local embeddings
    up_resp,        \* upload_file: the status of its last response
    up_pool,        \* positions of the corpus a retrieval could return when the upload began (history)
    rd_pc,          \* position inside retrieve_relevant_context
    rd_query,       \* its argument query
    rd_k,           \* its argument top_k
    rd_labels,      \* its local indices[0]
    rd_i,           \* the position of its loop in indices[0]
    rd_result,      \* its local results, and what it returns
    obs_index,      \* the vectors the search of this call read (history)
    obs_kb,         \* the corpus the loop of this call read last (history)
    rd_clean,       \* no step of upload_file ran during this call (history)
    any_raised,     \* an embedding or index call has raised (history)
    ch_pc,          \* chat: "idle", "retrieve" while its retrieval runs, then how
                    \* the request ended: "answered", "failed" (the retrieval
                    \* raised), "errored" (the completion raised), "rejected"
    ch_resp,        \* chat: the status of its response (0 before it)
    ch_sources,     \* chat: the 'sources' of its response
    \* ---- lexical retriever (app.py search_knowledge_base), per request thread
    relevance_score, \* entry['relevance_score'] of each entry of kb_app; NoScore: no key
    lx_pc,          \* position inside search_knowledge_base
    lx_query,       \* its argument query
    lx_i,           \* the entry its loop is at
    lx_results,     \* its local results: the entries, by position in kb_app
    lx_ret,         \* what it returned: the entries, by position in kb_app
    \* ---- content scanner (auto_sync_course.py scan_course_structure, main)
    sc_pages,       \* the pages the paginator yields
    sc_pc,          \* position inside scan_course_structure
    sc_p,           \* the page its outer loop is at
    sc_o,           \* the object its inner loop is at
    sc_lessons,     \* its local lessons
    sc_current,     \* its local current_lesson: <<>> for None, else <<lesson>>
    sc_ret,         \* what it returned
    sc_error,       \* what it caught: "none", "listing", "value" (history)
    sc_printed,     \* the last line it printed: "", "found" (line 122), "error" (line 126)
    main_rc,        \* main: NotReturned, or the status it returned
    rs_ret          \* what restart_backend returned to main; "none" before the call

storeVars == <<primary, backup, training_log, sv_pc, sv_lessons, sv_ret, prior,
               ever_saved, kb_app, app_state, kb_fixed, fixed_state, loaded_since,
               n_saves>>

embVars == <<knowledge_base, faiss_index, ld_pc, ld_listing, ld_i, ld_reported, up_pc, up_emb,
             up_resp, up_pool, rd_pc, rd_query, rd_k, rd_labels, rd_i, rd_result, obs_index,
             obs_kb, rd_clean, any_raised,
             ch_pc, ch_resp, ch_sources>>

lexVars == <<relevance_score, lx_pc, lx_query, lx_i, lx_results, lx_ret>>

scanVars == <<sc_pages, sc_pc, sc_p, sc_o, sc_lessons, sc_current, sc_ret, sc_error,
              sc_printed, main_rc, rs_ret>>

vars == <<storeVars, embVars, lexVars, scanVars>>

(***************************************************************************)
(* Bounds of the model.                                                    *)
(***************************************************************************)
MaxLessons == 2
MaxSaves == 3
MaxDocs == 3
MaxEntries == 4
MaxObjects == 4
PageSize == 2
ConcEntries == 2
MainObjects == 3

(***************************************************************************)
(* Strings.                                                                *)
(***************************************************************************)
RECURSIVE Concat(_)
Concat(ss) == IF ss = <<>> THEN <<>> ELSE Head(ss) \o Concat(Tail(ss))

Prefixes(s) == {SubSeq(s, 1, n) : n \in 0..Len(s)}

\* The printable ASCII characters in code order (a key's bytes, for S3's order);
\* the double quote, the backslash and the backquote, which no key here holds,
\* by name.
Ascii ==
    <<" ", "!", "dquote", "#", "$", "%", "&", "'", "(", ")", "*", "+", ",", "-", ".", "/", "0", "1", "2", "3", "4", "5", "6", "7", "8", "9", ":", ";", "<", "=", ">", "?", "@", "A", "B", "C", "D", "E", "F", "G", "H", "I", "J", "K", "L", "M", "N", "O",
       "P", "Q", "R", "S", "T", "U", "V", "W", "X", "Y", "Z", "[", "bslash", "]", "^", "_", "bquote", "a", "b", "c", "d", "e", "f", "g", "h", "i", "j", "k", "l", "m", "n", "o",
       "p", "q", "r", "s", "t", "u", "v", "w", "x", "y", "z", "{", "|", "}", "~">>

Ord(c) == 31 + CHOOSE i \in 1..Len(Ascii) : Ascii[i] = c

Chr(n) == Ascii[n - 31]

\* str.lower()
LowerChar(c) == IF Ord(c) >= 65 /\ Ord(c) <= 90 THEN Chr(Ord(c) + 32) ELSE c

Lower(s) == [i \in 1..Len(s) |-> LowerChar(s[i])]

\* s.startswith(p), s.endswith(p)
StartsWith(s, p) == Len(p) <= Len(s) /\ SubSeq(s, 1, Len(p)) = p

EndsWith(s, p) == Len(p) <= Len(s) /\ SubSeq(s, Len(s) - Len(p) + 1, Len(s)) = p

\* whether s[i..] starts with p
MatchAt(s, i, p) == i + Len(p) - 1 <= Len(s) /\ SubSeq(s, i, i + Len(p) - 1) = p

\* p in s
Contains(s, p) == \E i \in 1..(Len(s) + 1) : MatchAt(s, i, p)

\* s.replace(old, new), old not empty: every occurrence, left to right.
RECURSIVE Replace(_, _, _)
Replace(s, old, new) ==
    IF s = <<>> THEN <<>>
    ELSE IF MatchAt(s, 1, old)
         THEN new \o Replace(SubSeq(s, Len(old) + 1, Len(s)), old, new)
         ELSE <<Head(s)>> \o Replace(Tail(s), old, new)

\* s.split(c) for a one-character separator c: always at least one part.
RECURSIVE Split(_, _)
Split(s, c) ==
    IF \A i \in 1..Len(s) : s[i] # c THEN <<s>>
    ELSE LET i == CHOOSE m \in 1..Len(s) :
                      s[m] = c /\ \A n \in 1..(m - 1) : s[n] # c
         IN  <<SubSeq(s, 1, i - 1)>> \o Split(SubSeq(s, i + 1, Len(s)), c)

\* The order of two keys by their bytes (UTF-8 binary order, as S3 lists).
RECURSIVE KeyLess(_, _)
KeyLess(a, b) ==
    IF b = <<>> THEN FALSE
    ELSE IF a = <<>> THEN TRUE
    ELSE IF Head(a) = Head(b) THEN KeyLess(Tail(a), Tail(b))
    ELSE Ord(Head(a)) < Ord(Head(b))

(***************************************************************************)
(* Sample lessons, shaped as scan_course_structure builds them.  The       *)
(* fields s3_path, cdn_base, cdn_url and last_modified are strings derived *)
(* from the key and are left out: no operation modelled here reads them.   *)
(***************************************************************************)
Video(filename, s3_key, size) ==
    [filename |-> filename, s3_key |-> s3_key, size |-> size]

Slide(filename, s3_key) == [filename |-> filename, s3_key |-> s3_key]

Document(filename, s3_key, type) ==
    [filename |-> filename, s3_key |-> s3_key, type |-> type]

NewLesson(lesson_key, week_folder, week_num, lesson_folder, lesson_name) ==
    [lesson_key |-> lesson_key, week |-> week_folder, week_num |-> week_num,
     lesson_id |-> lesson_folder, lesson_name |-> lesson_name,
     slide_count |-> 0, slides |-> <<>>, videos |-> <<>>, documents |-> <<>>]

LessonA ==
    [NewLesson(<<"W", "e", "e", "k", "_", "0", "1", "/", "L", "1">>, <<"W", "e", "e", "k", "_", "0", "1">>, 1, <<"L", "1">>, <<"L", "1">>)
        EXCEPT !.videos = << Video(<<"v", ".", "m", "p", "4">>, <<"W", "e", "e", "k", "_", "0", "1", "/", "L", "1", "/", "v", ".", "m", "p", "4">>, 7) >>,
               !.slides = << Slide(<<"s", ".", "p", "n", "g">>, <<"W", "e", "e", "k", "_", "0", "1", "/", "L", "1", "/", "s", ".", "p", "n", "g">>) >>,
               !.slide_count = 1]

LessonB ==
    [NewLesson(<<"W", "e", "e", "k", "_", "0", "2", "/", "L", "2">>, <<"W", "e", "e", "k", "_", "0", "2">>, 2, <<"L", "2">>, <<"L", "2">>)
        EXCEPT !.documents = << Document(<<"d", ".", "p", "d", "f">>, <<"W", "e", "e", "k", "_", "0", "2", "/", "L", "2", "/", "d", ".", "p", "d", "f">>, <<"p", "d", "f">>) >>]

SampleLessons == {LessonA, LessonB}

\* The knowledge bases of at most n of these lessons, each at most once.
RECURSIVE SeqsUpTo(_, _)
SeqsUpTo(S, n) ==
    IF n = 0 THEN {<<>>}
    ELSE LET shorter == SeqsUpTo(S, n - 1)
         IN  shorter \cup {Append(s, x) : s \in {t \in shorter : Len(t) = n - 1},
                                          x \in S}

SampleKBs ==
    {kb \in SeqsUpTo(SampleLessons, MaxLessons) :
        \A i, j \in 1..Len(kb) : kb[i] = kb[j] => i = j}

(***************************************************************************)
(* JSON.  A JSON text is a sequence of tokens; a JSON value is a tagged    *)
(* tree.  json.dump writes the tokens of the value, json.load parses a     *)
(* token sequence and fails on anything that is not one complete value.    *)
(***************************************************************************)
JStr(s) == [t |-> "str", s |-> s]
JInt(n) == [t |-> "int", n |-> n]
JArr(a) == [t |-> "arr", a |-> a]
JObj(o) == [t |-> "obj", o |-> o]     \* o: sequence of <<key, value>>, in dict order
JNone   == [t |-> "none"]

TStr(s) == [k |-> "str", s |-> s]
TInt(n) == [k |-> "int", n |-> n]
TKey(s) == [k |-> "key", key |-> s]
TOpenArr  == [k |-> "["]
TCloseArr == [k |-> "]"]
TOpenObj  == [k |-> "{"]
TCloseObj == [k |-> "}"]

RECURSIVE Encode(_)
Encode(j) ==
    CASE j.t = "str" -> << TStr(j.s) >>
      [] j.t = "int" -> << TInt(j.n) >>
      [] j.t = "arr" ->
            <<TOpenArr>> \o Concat([i \in 1..Len(j.a) |-> Encode(j.a[i])]) \o <<TCloseArr>>
      [] j.t = "obj" ->
            <<TOpenObj>>
            \o Concat([i \in 1..Len(j.o) |-> <<TKey(j.o[i][1])>> \o Encode(j.o[i][2])])
            \o <<TCloseObj>>

ParseFail == [ok |-> FALSE, j |-> JNone, i |-> 0]

RECURSIVE ParseValue(_, _), ParseItems(_, _, _), ParseMembers(_, _, _)
ParseValue(toks, i) ==
    IF i > Len(toks) THEN ParseFail
    ELSE CASE toks[i].k = "str" -> [ok |-> TRUE, j |-> JStr(toks[i].s), i |-> i + 1]
           [] toks[i].k = "int" -> [ok |-> TRUE, j |-> JInt(toks[i].n), i |-> i + 1]
           [] toks[i].k = "["   -> ParseItems(toks, i + 1, <<>>)
           [] toks[i].k = "{"   -> ParseMembers(toks, i + 1, <<>>)
           [] OTHER             -> ParseFail

ParseItems(toks, i, acc) ==
    IF i > Len(toks) THEN ParseFail
    ELSE IF toks[i].k = "]" THEN [ok |-> TRUE, j |-> JArr(acc), i |-> i + 1]
    ELSE LET r == ParseValue(toks, i)
         IN  IF r.ok THEN ParseItems(toks, r.i, Append(acc, r.j)) ELSE ParseFail

ParseMembers(toks, i, acc) ==
    IF i > Len(toks) THEN ParseFail
    ELSE IF toks[i].k = "}" THEN [ok |-> TRUE, j |-> JObj(acc), i |-> i + 1]
    ELSE IF toks[i].k = "key"
         THEN LET r == ParseValue(toks, i + 1)
              IN  IF r.ok
                  THEN ParseMembers(toks, r.i, Append(acc, <<toks[i].key, r.j>>))
                  ELSE ParseFail
         ELSE ParseFail

\* The Python value of a JSON tree: str and int as they are, a list as a
\* sequence, a dict as a function of its keys (a repeated key keeps its last value).
RECURSIVE PyFromJ(_)
PyFromJ(j) ==
    CASE j.t = "str" -> j.s
      [] j.t = "int" -> j.n
      [] j.t = "arr" -> [i \in 1..Len(j.a) |-> PyFromJ(j.a[i])]
      [] j.t = "obj" ->
            [key \in {j.o[i][1] : i \in 1..Len(j.o)} |->
                LET last == CHOOSE i \in 1..Len(j.o) :
                                /\ j.o[i][1] = key
                                /\ \A m \in 1..Len(j.o) : j.o[m][1] = key => m <= i
                IN  PyFromJ(j.o[last][2])]

\* json.load(f): the value, or ok = FALSE where it raises JSONDecodeError.
JsonLoads(toks) ==
    LET r == ParseValue(toks, 1)
    IN  IF r.ok /\ r.i = Len(toks) + 1
        THEN [ok |-> TRUE, v |-> PyFromJ(r.j)]
        ELSE [ok |-> FALSE, v |-> <<>>]

\* The JSON trees of the values save_knowledge_base dumps: the type of each
\* field is the Python type scan_course_structure gave it.
VideoToJ(v) ==
    JObj(<< <<"filename", JStr(v.filename)>>, <<"s3_key", JStr(v.s3_key)>>,
            <<"size", JInt(v.size)>> >>)

SlideToJ(s) ==
    JObj(<< <<"filename", JStr(s.filename)>>, <<"s3_key", JStr(s.s3_key)>> >>)

DocumentToJ(d) ==
    JObj(<< <<"filename", JStr(d.filename)>>, <<"s3_key", JStr(d.s3_key)>>,
            <<"type", JStr(d.type)>> >>)

LessonToJ(l) ==
    JObj(<< <<"lesson_key", JStr(l.lesson_key)>>,
            <<"week", JStr(l.week)>>,
            <<"week_num", JInt(l.week_num)>>,
            <<"lesson_id", JStr(l.lesson_id)>>,
            <<"lesson_name", JStr(l.lesson_name)>>,
            <<"slide_count", JInt(l.slide_count)>>,
            <<"slides", JArr([i \in 1..Len(l.slides) |-> SlideToJ(l.slides[i])])>>,
            <<"videos", JArr([i \in 1..Len(l.videos) |-> VideoToJ(l.videos[i])])>>,
            <<"documents",
              JArr([i \in 1..Len(l.documents) |-> DocumentToJ(l.documents[i])])>> >>)

\* A dump that does not keep the order of the list.
JsonDump_Reversed(lessons) ==
    Encode(JArr([i \in 1..Len(lessons) |-> LessonToJ(lessons[Len(lessons) + 1 - i])]))

\* json.dump(lessons, f, indent=2): the full text written to f.
JsonDump(lessons) ==
    Encode(JArr([i \in 1..Len(lessons) |-> LessonToJ(lessons[i])]))

(***************************************************************************)
(* Embedding retriever (app_working.py).                                   *)
(***************************************************************************)
S3_COURSE_PREFIX ==
    <<"u", "s", "e", "r", "s", "/", "v", "i", "t", "a", "l", "y", "/", "c", "o", "u", "r", "s", "e", "s", "/", "n", "i", "r", "-", "f", "u", "n", "d", "a", "m", "e", "n", "t", "a", "l", "s", "/">>

\* The objects under the prefix, in key order.  body is the text get_object
\* returns for the key.
CourseObjects ==
    << [key |-> S3_COURSE_PREFIX \o <<"L", "1", "_", "n", "a", "r", "r", "a", "t", "i", "o", "n", ".", "t", "x", "t">>, body |-> "t0"],
       [key |-> S3_COURSE_PREFIX \o <<"L", "1", "_", "s", "l", "i", "d", "e", "s", ".", "p", "d", "f">>, body |-> "t9"],
       [key |-> S3_COURSE_PREFIX \o <<"L", "2", "_", "N", "a", "r", "r", "a", "t", "i", "o", "n", ".", "t", "x", "t">>, body |-> "t1"] >>

RECURSIVE SubSeqs(_)
SubSeqs(s) ==
    IF s = <<>> THEN {<<>>}
    ELSE LET rest == SubSeqs(Tail(s))
         IN  rest \cup {<<Head(s)>> \o r : r \in rest}

Listings == SubSeqs(CourseObjects)

\* The texts an upload may hold and the queries a request may ask.
Texts == {"t2", "t3"}
Queries == {"q1", "q4"}

\* top_k: the default of retrieve_relevant_context, which chat passes, and a
\* smaller one.
DefaultTopK == 3
TopKs == {DefaultTopK - 1, DefaultTopK}

\* embedding_model.encode of one text: a fixed vector for each text.  The
\* model is a black box; vectors are points of a line here, two texts share
\* one, and a query lies midway between two texts.
Embed(text) ==
    CASE text = "t0" -> 0
      [] text = "t1" -> 2
      [] text = "t2" -> 2
      [] text = "t3" -> 5
      [] text = "q1" -> 1
      [] text = "q4" -> 4

\* embedding_model.encode(texts) for texts = [item['content'] for item in kb]
Embeds(kb) == [i \in 1..Len(kb) |-> Embed(kb[i].content)]

\* The squared L2 distance IndexFlatL2 ranks by.
Dist(a, b) == (a - b) * (a - b)

None == [built |-> FALSE, vecs |-> <<>>]
IndexFlatL2(vecs) == [built |-> TRUE, vecs |-> vecs]

Min(a, b) == IF a <= b THEN a ELSE b

\* faiss_index.search(q, k): k labels (0-based), the min(k, ntotal) nearest
\* vectors in order of distance, then -1 for every result that does not exist.
\* The order among equal distances is the library's choice.
Search(vecs, q, k) ==
    LET n == Len(vecs)
        m == Min(n, k)
        d(label) == Dist(vecs[label + 1], q)
    IN  {lab \in [1..k -> -1..(n - 1)] :
            /\ \A i \in 1..m : lab[i] >= 0
            /\ \A i \in (m + 1)..k : lab[i] = -1
            /\ \A i, j \in 1..m : i < j => lab[i] # lab[j] /\ d(lab[i]) <= d(lab[j])
            /\ \A i \in 1..m : \A other \in 0..(n - 1) :
                   (\A j \in 1..m : lab[j] # other) => d(lab[i]) <= d(other)}

\* lst[idx] of Python: a negative idx counts from the end.
PyIndex(lst, idx) == IF idx < 0 THEN lst[Len(lst) + idx + 1] ELSE lst[idx + 1]

\* Lines 88-97: the positions (from 1) of the corpus that a call with the
\* default top_k can return: none without an index or a corpus (line 88);
\* else those that have a vector, and the last one, which label -1 selects,
\* when the index holds fewer than top_k vectors.
Returnable(index, kb) ==
    IF ~index.built \/ kb = <<>> THEN {}
    ELSE (1..Min(Len(index.vecs), Len(kb)))
         \cup (IF Len(index.vecs) < DefaultTopK THEN {Len(kb)} ELSE {})

IsNarration(key) == EndsWith(key, <<".", "t", "x", "t">>) /\ Contains(Lower(key), <<"n", "a", "r", "r", "a", "t", "i", "o", "n">>)

\* Lines 59-60: the lesson name of a key.
LessonName(key) ==
    LET parts == Split(key, "/")
    IN  Replace(Replace(parts[Len(parts)], <<".", "t", "x", "t">>, <<>>), <<"_">>, <<" ">>)

ServerUp == ld_pc = "done"

loadVars == <<ld_pc, ld_listing, ld_i, ld_reported>>
upVars == <<up_pc, up_emb, up_resp, up_pool>>
rdVars == <<rd_pc, rd_query, rd_k, rd_labels, rd_i, rd_result, obs_index, obs_kb, rd_clean>>
chVars == <<ch_pc, ch_resp, ch_sources>>

\* ---- load_course_materials, called once before app.run

\* Lines 40-47: the listing; without 'Contents' the function returns.
LoadList ==
    /\ ld_pc = "start"
    /\ IF ld_listing = <<>> THEN ld_pc' = "done" ELSE ld_pc' = "objects"
    /\ UNCHANGED <<knowledge_base, faiss_index, ld_listing, ld_i, ld_reported, upVars, rdVars, chVars,
                   any_raised>>
    /\ UNCHANGED <<storeVars, lexVars, scanVars>>

\* list_objects_v2 raises: caught at line 83.
LoadListRaise ==
    /\ ld_pc = "start"
    /\ ld_pc' = "done"
    /\ ld_listing' = <<>>
    /\ UNCHANGED <<knowledge_base, faiss_index, ld_i, ld_reported, upVars, rdVars, chVars,
                   any_raised>>
    /\ UNCHANGED <<storeVars, lexVars, scanVars>>

LoadAdvance ==
    /\ ld_i' = ld_i + 1
    /\ ld_pc' = IF ld_i = Len(ld_listing) THEN "index" ELSE "objects"
    /\ UNCHANGED <<faiss_index, ld_listing, upVars, rdVars, chVars, any_raised>>
    /\ UNCHANGED <<storeVars, lexVars, scanVars>>

\* Lines 49-66: one object of the listing; a narration text is fetched,
\* decoded and appended, any other object is passed over.
LoadObject ==
    /\ ld_pc = "objects"
    /\ LET obj == ld_listing[ld_i]
       IN  knowledge_base' =
               IF IsNarration(obj.key)
               THEN Append(knowledge_base,
                           [content |-> obj.body, source |-> LessonName(obj.key),
                            type |-> "lesson"])
               ELSE knowledge_base
    /\ UNCHANGED ld_reported
    /\ LoadAdvance

\* An exception of get_object or decode that leaves the loop for line 83.
LoadObjectRaise_Aborts ==
    /\ ld_pc = "objects"
    /\ IsNarration(ld_listing[ld_i].key)
    /\ ld_reported' = Append(ld_reported, ld_listing[ld_i].key)
    /\ ld_pc' = "done"
    /\ ld_listing' = <<>>
    /\ ld_i' = 1
    /\ UNCHANGED <<knowledge_base, faiss_index, any_raised, upVars, rdVars, chVars>>
    /\ UNCHANGED <<storeVars, lexVars, scanVars>>

\* Lines 67-68: get_object or decode raises for a narration object; the key
\* is printed and the loop goes on with the next object.
LoadObjectRaise ==
    /\ ld_pc = "objects"
    /\ IsNarration(ld_listing[ld_i].key)
    /\ ld_reported' = Append(ld_reported, ld_listing[ld_i].key)
    /\ UNCHANGED knowledge_base
    /\ LoadAdvance

\* The function returns: its locals are gone.
LoadReturn ==
    /\ ld_pc' = "done"
    /\ ld_listing' = <<>>
    /\ ld_i' = 1
    /\ UNCHANGED <<knowledge_base, upVars, rdVars, chVars>>
    /\ UNCHANGED <<storeVars, lexVars, scanVars>>

\* Lines 73-81: the index is built when the corpus is not empty.
LoadIndex ==
    /\ ld_pc = "index"
    /\ faiss_index' = IF knowledge_base # <<>>
                      THEN IndexFlatL2(Embeds(knowledge_base))
                      ELSE faiss_index
    /\ UNCHANGED <<any_raised, ld_reported>>
    /\ LoadReturn

\* embedding_model.encode raises (line 75): caught at line 83, no index.
LoadEncodeRaise ==
    /\ ld_pc = "index"
    /\ knowledge_base # <<>>
    /\ any_raised' = TRUE
    /\ UNCHANGED <<faiss_index, ld_reported>>
    /\ LoadReturn

\* faiss_index.add raises (line 79), after line 78 has set the global.
LoadAddRaise ==
    /\ ld_pc = "index"
    /\ knowledge_base # <<>>
    /\ any_raised' = TRUE
    /\ faiss_index' = IndexFlatL2(<<>>)
    /\ UNCHANGED ld_reported
    /\ LoadReturn

\* ---- upload_file, one request at a time

UploadStep ==
    /\ rd_clean' = (rd_clean /\ rd_pc \in {"idle", "done", "raised"})
    /\ UNCHANGED <<loadVars, chVars, rd_pc, rd_query, rd_k, rd_labels, rd_i, rd_result,
                   obs_index, obs_kb>>
    /\ UNCHANGED <<storeVars, lexVars, scanVars>>

\* Lines 242-256: no file, no file name, or no text extracted: 400.
UploadRejected ==
    /\ ServerUp /\ up_pc = "idle"
    /\ up_resp' = 400
    /\ UNCHANGED <<knowledge_base, faiss_index, up_pc, up_emb, up_pool, any_raised>>
    /\ UploadStep

\* Lines 258-264 raise (put_object): 500, nothing appended.
UploadPutRaise ==
    /\ ServerUp /\ up_pc = "idle"
    /\ up_resp' = 500
    /\ UNCHANGED <<knowledge_base, faiss_index, up_pc, up_emb, up_pool, any_raised>>
    /\ UploadStep

\* Lines 242-271: the text is extracted, the file stored, the document appended.
UploadAppend(text) ==
    /\ ServerUp /\ up_pc = "idle"
    /\ Len(knowledge_base) < MaxDocs
    /\ knowledge_base' = Append(knowledge_base,
                                [content |-> text, source |-> <<"u", ".", "t", "x", "t">>, type |-> "upload"])
    /\ up_pc' = "encode"
    /\ up_resp' = 0
    /\ up_pool' = Returnable(faiss_index, knowledge_base)
    /\ UNCHANGED <<faiss_index, up_emb, any_raised>>
    /\ UploadStep

\* Lines 274-275: the whole corpus is encoded.
UploadEncode ==
    /\ up_pc = "encode"
    /\ up_emb' = Embeds(knowledge_base)
    /\ up_pc' = "install"
    /\ UNCHANGED <<knowledge_base, faiss_index, up_resp, up_pool, any_raised>>
    /\ UploadStep

\* embedding_model.encode raises (line 275): 500 by line 288.
UploadEncodeRaise ==
    /\ up_pc = "encode"
    /\ up_pc' = "idle"
    /\ up_resp' = 500
    /\ any_raised' = TRUE
    /\ up_emb' = <<>>
    /\ UNCHANGED <<knowledge_base, faiss_index, up_pool>>
    /\ UploadStep

\* Lines 278-279: the global is set to a new, empty index.
UploadInstall ==
    /\ up_pc = "install"
    /\ faiss_index' = IndexFlatL2(<<>>)
    /\ up_pc' = "add"
    /\ UNCHANGED <<knowledge_base, up_emb, up_resp, up_pool, any_raised>>
    /\ UploadStep

\* Line 280: the vectors are added; lines 282-286: 200.
UploadAdd ==
    /\ up_pc = "add"
    /\ faiss_index' = IndexFlatL2(up_emb)
    /\ up_pc' = "idle"
    /\ up_resp' = 200
    /\ up_emb' = <<>>
    /\ UNCHANGED <<knowledge_base, up_pool, any_raised>>
    /\ UploadStep

\* faiss_index.add raises (line 280): 500 by line 288.
UploadAddRaise ==
    /\ up_pc = "add"
    /\ up_pc' = "idle"
    /\ up_resp' = 500
    /\ any_raised' = TRUE
    /\ up_emb' = <<>>
    /\ UNCHANGED <<knowledge_base, faiss_index, up_pool>>
    /\ UploadStep

\* ---- retrieve_relevant_context, in a request thread of its own

RetrieveStep ==
    /\ UNCHANGED <<knowledge_base, faiss_index, loadVars, upVars, any_raised>>
    /\ UNCHANGED <<storeVars, lexVars, scanVars>>

\* A test of the corpus alone.
NothingToSearch_CorpusOnly(index, kb) == kb = <<>>

\* Line 88: not faiss_index or not knowledge_base.  (None is false; an index
\* object, even an empty one, is true.)
NothingToSearch(index, kb) == ~index.built \/ kb = <<>>

\* Lines 86-89: the call; without an index or without a corpus it returns [].
RetrieveCall(query, top_k) ==
    /\ ServerUp /\ rd_pc \in {"idle", "done", "raised"} /\ ch_pc # "retrieve"
    /\ rd_query' = query
    /\ rd_k' = top_k
    /\ rd_result' = <<>>
    /\ rd_labels' = <<>>
    /\ rd_i' = 1
    /\ obs_index' = <<>>
    /\ obs_kb' = <<>>
    /\ rd_clean' = (up_pc = "idle")
    /\ rd_pc' = IF NothingToSearch(faiss_index, knowledge_base) THEN "done" ELSE "search"
    /\ RetrieveStep

\* A call from elsewhere than chat; the response of the last chat request is
\* no longer looked at.
RetrieveBegin(query, top_k) ==
    /\ RetrieveCall(query, top_k)
    /\ ch_pc' = "idle"
    /\ ch_resp' = 0
    /\ ch_sources' = <<>>

\* Lines 91-92: the query is encoded and the index, as it is now, searched.
RetrieveSearch ==
    /\ rd_pc = "search"
    /\ \E lab \in Search(faiss_index.vecs, Embed(rd_query), rd_k) : rd_labels' = lab
    /\ obs_index' = faiss_index.vecs
    /\ rd_pc' = "collect"
    /\ UNCHANGED <<rd_query, rd_k, rd_i, rd_result, obs_kb, rd_clean>>
    /\ UNCHANGED chVars
    /\ RetrieveStep

\* Lines 95-97, one turn of the loop: the corpus, as it is now, is indexed.
RetrieveCollect ==
    /\ rd_pc = "collect"
    /\ LET idx == rd_labels[rd_i]
       IN  rd_result' = IF idx < Len(knowledge_base)
                        THEN Append(rd_result, PyIndex(knowledge_base, idx))
                        ELSE rd_result
    /\ obs_kb' = knowledge_base
    /\ IF rd_i = rd_k
       THEN rd_pc' = "done" /\ rd_i' = 1 /\ rd_labels' = <<>>
       ELSE rd_pc' = "collect" /\ rd_i' = rd_i + 1 /\ UNCHANGED rd_labels
    /\ UNCHANGED <<rd_query, rd_k, obs_index, rd_clean>>
    /\ UNCHANGED chVars
    /\ RetrieveStep

\* embedding_model.encode or faiss_index.search raises (lines 91-92):
\* retrieve_relevant_context catches nothing; in a chat request the
\* exception reaches lines 234-236, which answer 500.
RetrieveRaise ==
    /\ rd_pc = "search"
    /\ rd_pc' = "raised"
    /\ any_raised' = TRUE
    /\ IF ch_pc = "retrieve"
       THEN ch_pc' = "failed" /\ ch_resp' = 500 /\ ch_sources' = <<>>
       ELSE UNCHANGED chVars
    /\ UNCHANGED <<rd_query, rd_k, rd_labels, rd_i, rd_result, obs_index, obs_kb, rd_clean>>
    /\ UNCHANGED <<knowledge_base, faiss_index, loadVars, upVars>>
    /\ UNCHANGED <<storeVars, lexVars, scanVars>>

\* ---- chat, with the OpenAI client configured

ChatStep ==
    /\ UNCHANGED <<knowledge_base, faiss_index, loadVars, upVars, rdVars, any_raised>>
    /\ UNCHANGED <<storeVars, lexVars, scanVars>>

\* Lines 157-161: no message: 400.
ChatRejected ==
    /\ ServerUp /\ ch_pc # "retrieve"
    /\ ch_pc' = "rejected"
    /\ ch_resp' = 400
    /\ ch_sources' = <<>>
    /\ ChatStep

\* Lines 157-167: the message is there; retrieve_relevant_context is called.
ChatBegin(query) ==
    /\ RetrieveCall(query, DefaultTopK)
    /\ ch_pc' = "retrieve"
    /\ ch_resp' = 0
    /\ ch_sources' = <<>>

\* Lines 169-232: the retrieval has returned; the completion is asked for and
\* the answer sent with the sources of the documents retrieved.
ChatAnswer ==
    /\ ch_pc = "retrieve" /\ rd_pc = "done"
    /\ ch_pc' = "answered"
    /\ ch_resp' = 200
    /\ ch_sources' = [n \in 1..Len(rd_result) |-> rd_result[n].source]
    /\ ChatStep

\* client.chat.completions.create raises (line 217): 500 by lines 234-236.
ChatCompletionRaise ==
    /\ ch_pc = "retrieve" /\ rd_pc = "done"
    /\ ch_pc' = "errored"
    /\ ch_resp' = 500
    /\ ch_sources' = <<>>
    /\ ChatStep

InitEmbWith(listings) ==
    /\ knowledge_base = <<>>
    /\ faiss_index = None
    /\ ld_pc = "start"
    /\ ld_listing \in listings
    /\ ld_i = 1
    /\ ld_reported = <<>>
    /\ up_pc = "idle"
    /\ up_emb = <<>>
    /\ up_resp = 0
    /\ up_pool = {}
    /\ rd_pc = "idle"
    /\ rd_query = "q1"
    /\ rd_k = DefaultTopK
    /\ rd_labels = <<>>
    /\ rd_i = 1
    /\ rd_result = <<>>
    /\ obs_index = <<>>
    /\ obs_kb = <<>>
    /\ rd_clean = TRUE
    /\ any_raised = FALSE
    /\ ch_pc = "idle"
    /\ ch_resp = 0
    /\ ch_sources = <<>>

InitEmb == InitEmbWith(Listings)

NextEmb ==
    \/ LoadList
    \/ LoadListRaise
    \/ LoadObject
    \/ LoadObjectRaise
    \/ LoadIndex
    \/ LoadEncodeRaise
    \/ LoadAddRaise
    \/ UploadRejected
    \/ UploadPutRaise
    \/ \E text \in Texts : UploadAppend(text)
    \/ UploadEncode
    \/ UploadEncodeRaise
    \/ UploadInstall
    \/ UploadAdd
    \/ UploadAddRaise
    \/ \E query \in Queries, top_k \in TopKs : RetrieveBegin(query, top_k)
    \/ RetrieveSearch
    \/ RetrieveCollect
    \/ RetrieveRaise
    \/ ChatRejected
    \/ \E query \in Queries : ChatBegin(query)
    \/ ChatAnswer
    \/ ChatCompletionRaise

(***************************************************************************)
(* Lexical retriever (app.py search_knowledge_base).                       *)
(***************************************************************************)
\* Lines 66-72.
topic_keywords ==
    [calibration |->
        {<<"c", "a", "l", "i", "b", "r", "a", "t", "i", "o", "n">>,
         <<"m", "o", "d", "e", "l">>,
         <<"p", "r", "e", "d", "i", "c", "t", "i", "o", "n">>,
         <<"a", "c", "c", "u", "r", "a", "c", "y">>},
     instrumentation |->
        {<<"i", "n", "s", "t", "r", "u", "m", "e", "n", "t">>,
         <<"s", "p", "e", "c", "t", "r", "o", "m", "e", "t", "e", "r">>,
         <<"d", "e", "t", "e", "c", "t", "o", "r">>,
         <<"h", "a", "r", "d", "w", "a", "r", "e">>},
     applications |->
        {<<"a", "p", "p", "l", "i", "c", "a", "t", "i", "o", "n">>,
         <<"a", "g", "r", "i", "c", "u", "l", "t", "u", "r", "e">>,
         <<"p", "h", "a", "r", "m", "a", "c", "e", "u", "t", "i", "c", "a", "l">>,
         <<"f", "o", "o", "d">>,
         <<"i", "n", "d", "u", "s", "t", "r", "y">>},
     theory |->
        {<<"t", "h", "e", "o", "r", "y">>,
         <<"w", "a", "v", "e", "l", "e", "n", "g", "t", "h">>,
         <<"a", "b", "s", "o", "r", "p", "t", "i", "o", "n">>,
         <<"l", "i", "g", "h", "t">>,
         <<"m", "o", "l", "e", "c", "u", "l", "a", "r">>},
     data |->
        {<<"d", "a", "t", "a">>,
         <<"a", "n", "a", "l", "y", "s", "i", "s">>,
         <<"c", "h", "e", "m", "o", "m", "e", "t", "r", "i", "c", "s">>,
         <<"s", "t", "a", "t", "i", "s", "t", "i", "c", "s">>}]

\* s.split(): the maximal runs of characters that are not whitespace.
RECURSIVE SplitWhitespace(_)
SplitWhitespace(s) ==
    IF s = <<>> THEN <<>>
    ELSE IF Head(s) = " " THEN SplitWhitespace(Tail(s))
    ELSE LET n == CHOOSE m \in 1..Len(s) :
                      /\ \A i \in 1..m : s[i] # " "
                      /\ m = Len(s) \/ s[m + 1] = " "
         IN  <<SubSeq(s, 1, n)>> \o SplitWhitespace(SubSeq(s, n + 1, Len(s)))

\* Line 78: any(word in entry['lesson_name'].lower() for word in query_lower.split())
NameMatch(entry, query) ==
    LET words == SplitWhitespace(Lower(query))
    IN  \E i \in 1..Len(words) : Contains(Lower(entry.lesson_name), words[i])

\* Lines 82-85: the topics with a keyword in the query and a keyword in the name.
MatchedTopics(entry, query) ==
    {topic \in DOMAIN topic_keywords :
        /\ \E kw \in topic_keywords[topic] : Contains(Lower(query), kw)
        /\ \E kw \in topic_keywords[topic] : Contains(Lower(entry.lesson_name), kw)}

NameBoost == 10
TopicBoost == 5
VideoBoost == 2
DocumentBoost == 1
TopN == 3

\* A score whose name boost asks for the whole query in the lesson name.
Score_WholeQuery(entry, query) ==
      (IF Contains(Lower(entry.lesson_name), Lower(query)) THEN NameBoost ELSE 0)
    + TopicBoost * Cardinality(MatchedTopics(entry, query))
    + (IF entry.videos # <<>> THEN VideoBoost ELSE 0)
    + (IF entry.documents # <<>> THEN DocumentBoost ELSE 0)

\* Lines 75-93: the score of one entry.
Score(entry, query) ==
      (IF NameMatch(entry, query) THEN NameBoost ELSE 0)
    + TopicBoost * Cardinality(MatchedTopics(entry, query))
    + (IF entry.videos # <<>> THEN VideoBoost ELSE 0)
    + (IF entry.documents # <<>> THEN DocumentBoost ELSE 0)

\* Line 95: whether the entry is appended to results.
Scored(score) == score > 0

NoScore == -1

\* x.get('relevance_score', 0)
GetScore(scores, x) == IF scores[x] = NoScore THEN 0 ELSE scores[x]

\* A sort that puts the later of two entries of equal key first.
RECURSIVE SortByScore_TiesReversed(_, _)
SortByScore_TiesReversed(results, scores) ==
    IF results = <<>> THEN <<>>
    ELSE LET first == CHOOSE i \in 1..Len(results) :
                          /\ \A j \in 1..Len(results) :
                                 GetScore(scores, results[j]) <= GetScore(scores, results[i])
                          /\ \A j \in (i + 1)..Len(results) :
                                 GetScore(scores, results[j]) < GetScore(scores, results[i])
         IN  <<results[first]>>
             \o SortByScore_TiesReversed(SubSeq(results, 1, first - 1)
                                           \o SubSeq(results, first + 1, Len(results)), scores)

\* Line 100: results.sort(key=..., reverse=True): by descending key, entries of
\* equal key in the order they had.
RECURSIVE SortByScore(_, _)
SortByScore(results, scores) ==
    IF results = <<>> THEN <<>>
    ELSE LET first == CHOOSE i \in 1..Len(results) :
                          /\ \A j \in 1..Len(results) :
                                 GetScore(scores, results[j]) <= GetScore(scores, results[i])
                          /\ \A j \in 1..(i - 1) :
                                 GetScore(scores, results[j]) < GetScore(scores, results[i])
         IN  <<results[first]>>
             \o SortByScore(SubSeq(results, 1, first - 1)
                            \o SubSeq(results, first + 1, Len(results)), scores)

\* A return without the slice.
TopMatches_All(results) == results

\* Line 102: results[:3]
TopMatches(results) == SubSeq(results, 1, Min(TopN, Len(results)))

\* The lessons of the loaded snapshot that searches run on: names as
\* lesson_folder.replace('_', ' ') gives them, with and without media.
WithMedia(lesson, nVideos, nDocuments) ==
    [lesson EXCEPT
        !.videos = [i \in 1..nVideos |-> Video(<<"v", ".", "m", "p", "4">>, lesson.lesson_key \o <<"/", "v", ".", "m", "p", "4">>, 7)],
        !.documents = [i \in 1..nDocuments |->
                          Document(<<"d", ".", "p", "d", "f">>, lesson.lesson_key \o <<"/", "d", ".", "p", "d", "f">>, <<"p", "d", "f">>)]]

LexLessons ==
    << WithMedia(NewLesson(<<"W", "e", "e", "k", "_", "0", "1", "/", "L", "1", "_", "I", "n", "t", "r", "o">>, <<"W", "e", "e", "k", "_", "0", "1">>, 1, <<"L", "1", "_", "I", "n", "t", "r", "o">>, <<"L", "1", " ", "I", "n", "t", "r", "o">>), 0, 0),
       WithMedia(NewLesson(<<"W", "e", "e", "k", "_", "0", "1", "/", "L", "2", "_", "M", "o", "d", "e", "l", "_", "A", "c", "c", "u", "r", "a", "c", "y">>, <<"W", "e", "e", "k", "_", "0", "1">>, 1, <<"L", "2", "_", "M", "o", "d", "e", "l", "_", "A", "c", "c", "u", "r", "a", "c", "y">>, <<"L", "2", " ", "M", "o", "d", "e", "l", " ", "A", "c", "c", "u", "r", "a", "c", "y">>), 1, 0),
       WithMedia(NewLesson(<<"W", "e", "e", "k", "_", "0", "1", "/", "L", "3", "_", "D", "a", "t", "a">>, <<"W", "e", "e", "k", "_", "0", "1">>, 1, <<"L", "3", "_", "D", "a", "t", "a">>, <<"L", "3", " ", "D", "a", "t", "a">>), 0, 1),
       WithMedia(NewLesson(<<"W", "e", "e", "k", "_", "0", "2", "/", "L", "1", "_", "L", "i", "g", "h", "t">>, <<"W", "e", "e", "k", "_", "0", "2">>, 2, <<"L", "1", "_", "L", "i", "g", "h", "t">>, <<"L", "1", " ", "L", "i", "g", "h", "t">>), 0, 0),
       WithMedia(NewLesson(<<"W", "e", "e", "k", "_", "0", "2", "/", "L", "2", "_", "D", "a", "t", "a", "_", "A", "n", "a", "l", "y", "s", "i", "s">>, <<"W", "e", "e", "k", "_", "0", "2">>, 2, <<"L", "2", "_", "D", "a", "t", "a", "_", "A", "n", "a", "l", "y", "s", "i", "s">>, <<"L", "2", " ", "D", "a", "t", "a", " ", "A", "n", "a", "l", "y", "s", "i", "s">>), 1, 1) >>

LexKBs == {kb \in SubSeqs(LexLessons) : Len(kb) <= MaxEntries}

LexQueries ==
    { <<>>,
      <<"z", "z", "z">>,
      <<"I", "n", "t", "r", "o">>,
      <<"c", "a", "l", "i", "b", "r", "a", "t", "i", "o", "n", " ", "m", "o", "d", "e", "l", "s">>,
      <<"d", "a", "t", "a", " ", " ", "L">>,
      <<"h", "i", "g", "h", "l", "i", "g", "h", "t", "s">> }

Threads == {1, 2}

LexStep == UNCHANGED <<storeVars, embVars, scanVars>>

\* Lines 60-72: the call.
SearchBegin(t, query) ==
    /\ app_state = "up"
    /\ lx_pc[t] \in {"idle", "done"}
    /\ lx_query' = [lx_query EXCEPT ![t] = query]
    /\ lx_results' = [lx_results EXCEPT ![t] = <<>>]
    /\ lx_i' = [lx_i EXCEPT ![t] = 1]
    /\ lx_ret' = [lx_ret EXCEPT ![t] = <<>>]
    /\ lx_pc' = [lx_pc EXCEPT ![t] = IF kb_app = <<>> THEN "sort" ELSE "loop"]
    /\ UNCHANGED relevance_score
    /\ LexStep

\* An entry that keeps the larger of the score it holds and the new one.
StoredScore_Largest(held, score) == IF held > score THEN held ELSE score

\* Line 96: entry['relevance_score'] = score, whatever the entry held.
StoredScore(held, score) == score

\* Lines 74-97, one turn of the loop: the entry is scored; with a score above
\* 0 the score is stored in the entry and the entry appended to results.
SearchEntry(t) ==
    /\ lx_pc[t] = "loop"
    /\ LET i == lx_i[t]
           score == Score(kb_app[i], lx_query[t])
       IN  /\ IF Scored(score)
              THEN /\ relevance_score' = [relevance_score EXCEPT ![i] = StoredScore(@, score)]
                   /\ lx_results' = [lx_results EXCEPT ![t] = Append(@, i)]
              ELSE UNCHANGED <<relevance_score, lx_results>>
           /\ lx_i' = [lx_i EXCEPT ![t] = i + 1]
           /\ lx_pc' = [lx_pc EXCEPT ![t] = IF i = Len(kb_app) THEN "sort" ELSE "loop"]
    /\ UNCHANGED <<lx_query, lx_ret>>
    /\ LexStep

\* Lines 99-102: results is sorted by the scores the entries hold now, and
\* its first three entries are returned.
SearchReturn(t) ==
    /\ lx_pc[t] = "sort"
    /\ lx_ret' = [lx_ret EXCEPT ![t] = TopMatches(SortByScore(lx_results[t], relevance_score))]
    /\ lx_results' = [lx_results EXCEPT ![t] = <<>>]
    /\ lx_i' = [lx_i EXCEPT ![t] = 1]
    /\ lx_pc' = [lx_pc EXCEPT ![t] = "done"]
    /\ UNCHANGED <<relevance_score, lx_query>>
    /\ LexStep

\* No entry of a snapshot just loaded has the key relevance_score, and no
\* request is being served.
InitLex ==
    /\ relevance_score = [i \in 1..Len(kb_app) |-> NoScore]
    /\ lx_pc = [t \in Threads |-> "idle"]
    /\ lx_query = [t \in Threads |-> <<>>]
    /\ lx_i = [t \in Threads |-> 1]
    /\ lx_results = [t \in Threads |-> <<>>]
    /\ lx_ret = [t \in Threads |-> <<>>]

\* One request at a time.
NextLex ==
    \/ \E query \in LexQueries : SearchBegin(1, query)
    \/ SearchEntry(1)
    \/ SearchReturn(1)

(***************************************************************************)
(* Content scanner (auto_sync_course.py scan_course_structure, main).      *)
(***************************************************************************)
S3_COURSE_PATH ==
    <<"u", "s", "e", "r", "s", "/", "v", "i", "t", "a", "l", "y", "@", "c", "l", "o", "v", "i", "t", "e", "k", ".", "c", "o", "m", "/", "c", "o", "u", "r", "s", "e", "s", "/", "N", "I", "R", "_", "E", "s", "s", "e", "n", "t", "i", "a", "l", "s", "_", "C", "o", "u", "r", "s", "e", "/">>

VIDEO_EXTENSIONS == {<<".", "m", "p", "4">>, <<".", "w", "e", "b", "m">>, <<".", "m", "o", "v">>, <<".", "a", "v", "i">>, <<".", "m", "k", "v">>}
IMAGE_EXTENSIONS == {<<".", "p", "n", "g">>, <<".", "j", "p", "g">>, <<".", "j", "p", "e", "g">>, <<".", "g", "i", "f">>, <<".", "w", "e", "b", "p">>}
DOCUMENT_EXTENSIONS == {<<".", "p", "d", "f">>, <<".", "d", "o", "c", "x">>, <<".", "p", "p", "t", "x">>, <<".", "t", "x", "t">>, <<".", "m", "d">>}

\* The keys that may exist under the prefix, relative to it: the prefix
\* itself, a week folder marker, an object named like a lesson folder, files
\* of lessons (one folder name differing from another by a character below
\* "/"), a folder that is no lesson, a week folder without a number, a file
\* outside the weeks, an extension in capitals, an extension not known.
RelativeKeys ==
    { <<>>,
      <<"W", "e", "e", "k", "_", "0", "1", "/">>,
      <<"W", "e", "e", "k", "_", "0", "1", "/", "L", "1">>,
      <<"W", "e", "e", "k", "_", "0", "1", "/", "L", "1", "-", "b", "/", "a", ".", "m", "p", "4">>,
      <<"W", "e", "e", "k", "_", "0", "1", "/", "L", "1", "/", "s", "l", "i", "d", "e", "1", ".", "p", "n", "g">>,
      <<"W", "e", "e", "k", "_", "0", "1", "/", "L", "1", "/", "v", "i", "d", "e", "o", ".", "m", "p", "4">>,
      <<"W", "e", "e", "k", "_", "0", "1", "/", "L", "1", "/", "V", ".", "M", "P", "4">>,
      <<"W", "e", "e", "k", "_", "0", "1", "/", "L", "1", "/", "n", "o", "t", "e", "s", ".", "x", "y", "z">>,
      <<"W", "e", "e", "k", "_", "0", "1", "/", "L", "2", "/", "d", "o", "c", ".", "p", "d", "f">>,
      <<"W", "e", "e", "k", "_", "0", "1", "/", "n", "o", "t", "e", "s", "/", "x", ".", "t", "x", "t">>,
      <<"W", "e", "e", "k", "_", "0", "2", "/", "L", "1", "/", "v", "i", "d", "e", "o", ".", "m", "p", "4">>,
      <<"W", "e", "e", "k", "_", "a", "b", "/", "L", "1", "/", "x", ".", "m", "p", "4">>,
      <<"r", "e", "a", "d", "m", "e", ".", "t", "x", "t">> }

CandidateKeys == {S3_COURSE_PATH \o rel : rel \in RelativeKeys}

\* A listing is in the order of its keys (list_objects_v2 lists in UTF-8
\* binary order).
RECURSIVE SortKeys(_)
SortKeys(keys) ==
    IF keys = {} THEN <<>>
    ELSE LET least == CHOOSE k \in keys : \A other \in keys \ {k} : KeyLess(k, other)
         IN  <<least>> \o SortKeys(keys \ {least})

Object(key) == [Key |-> key, Size |-> 7]

RECURSIVE SubsetsUpTo(_, _)
SubsetsUpTo(S, n) ==
    IF n = 0 THEN {{}}
    ELSE LET smaller == SubsetsUpTo(S, n - 1)
         IN  smaller \cup {T \cup {x} : T \in smaller, x \in S}

\* The pages of a listing: PageSize objects a page; an empty listing is one
\* page without 'Contents'.
RECURSIVE Paginate(_)
Paginate(objs) ==
    IF Len(objs) <= PageSize
    THEN << [has_contents |-> objs # <<>>, Contents |-> objs] >>
    ELSE << [has_contents |-> TRUE, Contents |-> SubSeq(objs, 1, PageSize)] >>
         \o Paginate(SubSeq(objs, PageSize + 1, Len(objs)))

\* The ways a listing may arrive: in full pages, and with a page without
\* 'Contents' between two of them (lines 42-43 allow for one anywhere).
Pagings(objs) ==
    LET pages == Paginate(objs)
        gap == [has_contents |-> FALSE, Contents |-> <<>>]
    IN  {pages} \cup {SubSeq(pages, 1, k) \o <<gap>> \o SubSeq(pages, k + 1, Len(pages)) :
                          k \in 1..(Len(pages) - 1)}

ListingOf(keys) == LET sorted == SortKeys(keys)
                   IN  [i \in 1..Len(sorted) |-> Object(sorted[i])]

Namespaces == SubsetsUpTo(CandidateKeys, MaxObjects)

\* The namespaces of the runs of main.
MainNamespaces == SubsetsUpTo(CandidateKeys, MainObjects)

\* int(s) for the text after "Week_": digits only (signs, blanks and
\* underscores, which int() also takes, are not among the keys here).
Digits == <<"0", "1", "2", "3", "4", "5", "6", "7", "8", "9">>

IsDigit(c) == \E d \in 1..10 : Digits[d] = c

DigitValue(c) == (CHOOSE d \in 1..10 : Digits[d] = c) - 1

IntOk(s) == s # <<>> /\ \A i \in 1..Len(s) : IsDigit(s[i])

RECURSIVE IntValue(_)
IntValue(s) ==
    IF s = <<>> THEN 0 ELSE 10 * IntValue(SubSeq(s, 1, Len(s) - 1)) + DigitValue(s[Len(s)])

\* Path(filename).suffix: from the last ".", when that is neither the first
\* nor the last character of the name.
Suffix(filename) ==
    LET dots == {i \in 1..Len(filename) : filename[i] = "."}
    IN  IF dots = {} THEN <<>>
        ELSE LET i == CHOOSE d \in dots : \A e \in dots : e <= d
             IN  IF i > 1 /\ i < Len(filename)
                 THEN SubSeq(filename, i, Len(filename))
                 ELSE <<>>

\* The categories chosen by the extension as written, without lower().
Categorize_CaseSensitive(lesson, parts, key, size) ==
    IF Len(parts) < 3 THEN lesson
    ELSE LET filename == parts[3]
             file_ext == Suffix(filename)
         IN  IF file_ext \in VIDEO_EXTENSIONS
             THEN [lesson EXCEPT !.videos = Append(@, Video(filename, key, size))]
             ELSE IF file_ext \in IMAGE_EXTENSIONS
             THEN [lesson EXCEPT !.slides = Append(@, Slide(filename, key)),
                                 !.slide_count = @ + 1]
             ELSE IF file_ext \in DOCUMENT_EXTENSIONS
             THEN [lesson EXCEPT !.documents =
                       Append(@, Document(filename, key, Tail(file_ext)))]
             ELSE lesson

\* Lines 89-116: the file of a key with three or more parts goes to videos,
\* slides or documents of the current lesson, or nowhere.
Categorize(lesson, parts, key, size) ==
    IF Len(parts) < 3 THEN lesson
    ELSE LET filename == parts[3]
             file_ext == Lower(Suffix(filename))
         IN  IF file_ext \in VIDEO_EXTENSIONS
             THEN [lesson EXCEPT !.videos = Append(@, Video(filename, key, size))]
             ELSE IF file_ext \in IMAGE_EXTENSIONS
             THEN [lesson EXCEPT !.slides = Append(@, Slide(filename, key)),
                                 !.slide_count = @ + 1]
             ELSE IF file_ext \in DOCUMENT_EXTENSIONS
             THEN [lesson EXCEPT !.documents =
                       Append(@, Document(filename, key, Tail(file_ext)))]
             ELSE lesson

\* Lines 46-116, one turn of the inner loop, on the locals lessons (ls) and
\* sc_current (cur): the locals after it, or error where int() raises.
ScanObject(ls, cur, obj) ==
    LET key == obj.Key
        relative_path == Replace(key, S3_COURSE_PATH, <<>>)
        parts == Split(relative_path, "/")
        same == [error |-> FALSE, lessons |-> ls, current_lesson |-> cur]
    IN  IF ~StartsWith(relative_path, <<"W", "e", "e", "k", "_">>) THEN same
        ELSE IF Len(parts) < 2 THEN same
        ELSE LET week_folder == parts[1]
                 number == Split(week_folder, "_")[2]
             IN  IF ~IntOk(number)
                 THEN [error |-> TRUE, lessons |-> ls, current_lesson |-> cur]
                 ELSE IF ~StartsWith(parts[2], <<"L">>) THEN same
                 ELSE LET lesson_folder == parts[2]
                          lesson_key == week_folder \o <<"/">> \o lesson_folder
                          starts == cur = <<>> \/ cur[1].lesson_key # lesson_key
                          flushed == IF starts /\ cur # <<>> THEN Append(ls, cur[1]) ELSE ls
                          lesson == IF starts
                                    THEN NewLesson(lesson_key, week_folder, IntValue(number),
                                                   lesson_folder,
                                                   Replace(lesson_folder, <<"_">>, <<" ">>))
                                    ELSE cur[1]
                      IN  [error |-> FALSE, lessons |-> flushed,
                           current_lesson |-> <<Categorize(lesson, parts, key, obj.Size)>>]

NotReturned == -1

ScanStep == UNCHANGED <<storeVars, embVars, lexVars>>

\* Lines 30-39: the call, from main (line 199).
ScanBegin ==
    /\ sc_pc = "start"
    /\ sc_pc' = "page"
    /\ sc_lessons' = <<>>
    /\ sc_current' = <<>>
    /\ UNCHANGED <<sc_pages, sc_p, sc_o, sc_ret, sc_error, sc_printed, main_rc, rs_ret>>
    /\ ScanStep

\* Lines 41-43: the next page is fetched; a page without 'Contents' is
\* passed over; after the last page the loop ends.
ScanPage ==
    /\ sc_pc = "page"
    /\ IF sc_p > Len(sc_pages)
       THEN sc_pc' = "flush" /\ UNCHANGED <<sc_p, sc_o>>
       ELSE IF ~sc_pages[sc_p].has_contents
            THEN sc_pc' = "page" /\ sc_p' = sc_p + 1 /\ UNCHANGED sc_o
            ELSE sc_pc' = "object" /\ sc_o' = 1 /\ UNCHANGED sc_p
    /\ UNCHANGED <<sc_pages, sc_lessons, sc_current, sc_ret, sc_error, sc_printed, main_rc, rs_ret>>
    /\ ScanStep

\* Lines 125-127: an exception is caught, [] is returned.
ScanReturnEmpty(error) ==
    /\ sc_pc' = "done"
    /\ sc_ret' = <<>>
    /\ sc_error' = error
    /\ UNCHANGED <<sc_pages, sc_p, sc_o, sc_lessons, sc_current, main_rc, rs_ret>>
    /\ sc_printed' = "error"
    /\ ScanStep

\* The listing request of a page raises (line 41).
ScanPageRaise ==
    /\ sc_pc = "page"
    /\ sc_p <= Len(sc_pages)
    /\ ScanReturnEmpty("listing")

\* Lines 45-116, one object.
ScanObjectStep ==
    /\ sc_pc = "object"
    /\ LET r == ScanObject(sc_lessons, sc_current, sc_pages[sc_p].Contents[sc_o])
       IN  /\ ~r.error
           /\ sc_lessons' = r.lessons
           /\ sc_current' = r.current_lesson
    /\ IF sc_o = Len(sc_pages[sc_p].Contents)
       THEN sc_pc' = "page" /\ sc_p' = sc_p + 1 /\ sc_o' = 1
       ELSE sc_pc' = "object" /\ sc_o' = sc_o + 1 /\ UNCHANGED sc_p
    /\ UNCHANGED <<sc_pages, sc_ret, sc_error, sc_printed, main_rc, rs_ret>>
    /\ ScanStep

\* int() raises ValueError at line 58.
ScanObjectRaise ==
    /\ sc_pc = "object"
    /\ ScanObject(sc_lessons, sc_current, sc_pages[sc_p].Contents[sc_o]).error
    /\ ScanReturnEmpty("value")

\* A return without the lesson in progress.
ScanFlush_DropsLast ==
    /\ sc_pc = "flush"
    /\ sc_ret' = sc_lessons
    /\ sc_pc' = "done"
    /\ UNCHANGED <<sc_pages, sc_p, sc_o, sc_lessons, sc_current, sc_error, main_rc, rs_ret>>
    /\ sc_printed' = "found"
    /\ ScanStep

\* Lines 118-123: the lesson in progress is appended, lessons returned.
ScanFlush ==
    /\ sc_pc = "flush"
    /\ sc_ret' = IF sc_current # <<>> THEN Append(sc_lessons, sc_current[1]) ELSE sc_lessons
    /\ sc_pc' = "done"
    /\ UNCHANGED <<sc_pages, sc_p, sc_o, sc_lessons, sc_current, sc_error, main_rc, rs_ret>>
    /\ sc_printed' = "found"
    /\ ScanStep

\* main, lines 201-203: without lessons, status 1.
MainNoLessons ==
    /\ sc_pc = "done"
    /\ main_rc = NotReturned
    /\ sc_ret = <<>>
    /\ main_rc' = 1
    /\ UNCHANGED <<sc_pages, sc_pc, sc_p, sc_o, sc_lessons, sc_current, sc_ret, sc_error,
                   sc_printed, rs_ret>>
    /\ ScanStep

InitScanWith(namespaces) ==
    /\ sc_pages \in UNION {Pagings(ListingOf(keys)) : keys \in namespaces}
    /\ sc_pc = "start"
    /\ sc_p = 1
    /\ sc_o = 1
    /\ sc_lessons = <<>>
    /\ sc_current = <<>>
    /\ sc_ret = <<>>
    /\ sc_error = "none"
    /\ sc_printed = ""
    /\ main_rc = NotReturned
    /\ rs_ret = "none"

NextScan ==
    \/ ScanBegin
    \/ ScanPage
    \/ ScanPageRaise
    \/ ScanObjectStep
    \/ ScanObjectRaise
    \/ ScanFlush
    \/ MainNoLessons

(***************************************************************************)
(* Knowledge base store.                                                   *)
(***************************************************************************)
Missing == [exists |-> FALSE, toks |-> <<>>]
File(toks) == [exists |-> TRUE, toks |-> toks]

\* Where a write that does not complete may stop: nothing written, half of the
\* text, all but the last token.  Every strict prefix of a JSON text is cut
\* inside the outermost list, so these stand for all of them.
CutPoints(toks) == {0, Len(toks) \div 2, Len(toks) - 1} \cap 0..(Len(toks) - 1)

\* sum(...) of a sequence of numbers
RECURSIVE Sum(_)
Sum(nums) == IF nums = <<>> THEN 0 ELSE Head(nums) + Sum(Tail(nums))

VideoCounts(lessons) == [i \in 1..Len(lessons) |-> Len(lessons[i].videos)]
DocumentCounts(lessons) == [i \in 1..Len(lessons) |-> Len(lessons[i].documents)]
SlideCounts(lessons) == [i \in 1..Len(lessons) |-> lessons[i].slide_count]

\* A summary that counts videos where documents are meant.
TrainingLog_VideosAsDocuments(lessons) ==
    LET ofWeek(w) == SelectSeq(lessons, LAMBDA l : l.week = w)
    IN  [total_lessons   |-> Len(lessons),
         total_videos    |-> Sum(VideoCounts(lessons)),
         total_slides    |-> Sum(SlideCounts(lessons)),
         total_documents |-> Sum(VideoCounts(lessons)),
         weeks |-> [w \in {lessons[i].week : i \in 1..Len(lessons)} |->
                      [lesson_count |-> Len(ofWeek(w)),
                       video_count  |-> Sum(VideoCounts(ofWeek(w))),
                       slide_count  |-> Sum(SlideCounts(ofWeek(w)))]]]

\* The training_log dict built by save_knowledge_base (last_sync, a clock
\* reading, is left out).
TrainingLog(lessons) ==
    LET ofWeek(w) == SelectSeq(lessons, LAMBDA l : l.week = w)
    IN  [total_lessons   |-> Len(lessons),
         total_videos    |-> Sum(VideoCounts(lessons)),
         total_slides    |-> Sum(SlideCounts(lessons)),
         total_documents |-> Sum(DocumentCounts(lessons)),
         weeks |-> [w \in {lessons[i].week : i \in 1..Len(lessons)} |->
                      [lesson_count |-> Len(ofWeek(w)),
                       video_count  |-> Sum(VideoCounts(ofWeek(w))),
                       slide_count  |-> Sum(SlideCounts(ofWeek(w)))]]]

NoLog == [exists |-> FALSE, complete |-> FALSE, val |-> TrainingLog(<<>>)]

\* app.py, lines 29-36: open and json.load inside try/except; any failure
\* leaves knowledge_base = [].
AppLoad(file) ==
    IF file.exists /\ JsonLoads(file.toks).ok THEN JsonLoads(file.toks).v ELSE <<>>

\* app_fixed.py, lines 11-18: json.load outside any try, so a malformed file
\* ends the process at import.
FixedLoad(file) ==
    IF ~file.exists THEN [state |-> "up", kb |-> <<>>]
    ELSE IF JsonLoads(file.toks).ok
         THEN [state |-> "up", kb |-> JsonLoads(file.toks).v]
         ELSE [state |-> "crashed", kb |-> <<>>]

\* save_knowledge_base(lessons) is entered.
SaveBegin(lessons) ==
    /\ sv_pc = "idle"
    /\ n_saves < MaxSaves
    /\ sv_pc' = "backup"
    /\ sv_lessons' = lessons
    /\ sv_ret' = "none"
    /\ prior' = AppLoad(primary)
    /\ loaded_since' = {}
    /\ n_saves' = n_saves + 1
    /\ UNCHANGED <<primary, backup, training_log, ever_saved, kb_app, app_state,
                   kb_fixed, fixed_state>>
    /\ UNCHANGED <<embVars, lexVars, scanVars>>

\* Lines 133-136: os.rename of the primary onto the backup, when the primary exists.
SaveBackup ==
    /\ sv_pc = "backup"
    /\ IF primary.exists
       THEN backup' = primary /\ primary' = Missing
       ELSE UNCHANGED <<primary, backup>>
    /\ sv_pc' = "open"
    /\ UNCHANGED <<training_log, sv_lessons, sv_ret, prior, ever_saved, kb_app,
                   app_state, kb_fixed, fixed_state, loaded_since, n_saves>>
    /\ UNCHANGED <<embVars, lexVars, scanVars>>

\* Line 139: open(KNOWLEDGE_BASE_FILE, 'w') creates or truncates the file.
SaveOpen ==
    /\ sv_pc = "open"
    /\ primary' = File(<<>>)
    /\ sv_pc' = "dump"
    /\ UNCHANGED <<backup, training_log, sv_lessons, sv_ret, prior, ever_saved,
                   kb_app, app_state, kb_fixed, fixed_state, loaded_since, n_saves>>
    /\ UNCHANGED <<embVars, lexVars, scanVars>>

\* Line 140: json.dump writes the whole text.
SaveDump ==
    /\ sv_pc = "dump"
    /\ primary' = File(JsonDump(sv_lessons))
    /\ sv_pc' = "log"
    /\ UNCHANGED <<backup, training_log, sv_lessons, sv_ret, prior, ever_saved,
                   kb_app, app_state, kb_fixed, fixed_state, loaded_since, n_saves>>
    /\ UNCHANGED <<embVars, lexVars, scanVars>>

\* Lines 145-170: the training log is built and written; return True.
SaveLog ==
    /\ sv_pc = "log"
    /\ training_log' = [exists |-> TRUE, complete |-> TRUE, val |-> TrainingLog(sv_lessons)]
    /\ sv_pc' = "idle"
    /\ sv_ret' = "True"
    /\ ever_saved' = TRUE
    /\ UNCHANGED <<primary, backup, sv_lessons, prior, kb_app, app_state, kb_fixed,
                   fixed_state, loaded_since, n_saves>>
    /\ UNCHANGED <<embVars, lexVars, scanVars>>

\* Lines 172-174: an exception of any step is caught; return False.
SaveReturnFalse ==
    /\ sv_pc' = "idle"
    /\ sv_ret' = "False"
    /\ UNCHANGED <<sv_lessons, prior, ever_saved, kb_app, app_state, kb_fixed,
                   fixed_state, loaded_since, n_saves>>
    /\ UNCHANGED <<embVars, lexVars, scanVars>>

\* os.rename raises (line 135).
SaveBackupRaise ==
    /\ sv_pc = "backup"
    /\ primary.exists
    /\ SaveReturnFalse
    /\ UNCHANGED <<primary, backup, training_log>>

\* open(..., 'w') raises (line 139): nothing is created.
SaveOpenRaise ==
    /\ sv_pc = "open"
    /\ SaveReturnFalse
    /\ UNCHANGED <<primary, backup, training_log>>

\* A write of json.dump raises (line 140): the file keeps what was written.
SaveDumpRaise ==
    /\ sv_pc = "dump"
    /\ \E n \in CutPoints(JsonDump(sv_lessons)) :
           primary' = File(SubSeq(JsonDump(sv_lessons), 1, n))
    /\ SaveReturnFalse
    /\ UNCHANGED <<backup, training_log>>

\* Writing the training log raises (lines 166-167): the log is left truncated.
SaveLogRaise ==
    /\ sv_pc = "log"
    /\ training_log' = [training_log EXCEPT !.exists = TRUE, !.complete = FALSE]
    /\ SaveReturnFalse
    /\ UNCHANGED <<primary, backup>>

\* The sync process is killed between two steps: nothing is returned.
SaveCrash ==
    /\ sv_pc \in {"backup", "open", "dump", "log"}
    /\ sv_pc' = "idle"
    /\ sv_ret' = "crashed"
    /\ UNCHANGED <<primary, backup, training_log, sv_lessons, prior, ever_saved,
                   kb_app, app_state, kb_fixed, fixed_state, loaded_since, n_saves>>
    /\ UNCHANGED <<embVars, lexVars, scanVars>>

\* app.py is (re)started: lines 29-36 run at import.
AppStart ==
    /\ sv_pc = "idle"
    /\ kb_app' = AppLoad(primary)
    /\ app_state' = "up"
    /\ loaded_since' = loaded_since \cup {"app"}
    /\ relevance_score' = [i \in 1..Len(AppLoad(primary)) |-> NoScore]
    /\ lx_pc' = [t \in Threads |-> "idle"]
    /\ lx_query' = [t \in Threads |-> <<>>]
    /\ lx_i' = [t \in Threads |-> 1]
    /\ lx_results' = [t \in Threads |-> <<>>]
    /\ lx_ret' = [t \in Threads |-> <<>>]
    /\ UNCHANGED <<primary, backup, training_log, sv_pc, sv_lessons, sv_ret, prior,
                   ever_saved, kb_fixed, fixed_state, n_saves>>
    /\ UNCHANGED <<embVars, scanVars>>

\* app_fixed.py is (re)started: lines 11-18 run at import.
FixedStart ==
    /\ sv_pc = "idle"
    /\ kb_fixed' = FixedLoad(primary).kb
    /\ fixed_state' = FixedLoad(primary).state
    /\ loaded_since' = loaded_since \cup {"fixed"}
    /\ UNCHANGED <<primary, backup, training_log, sv_pc, sv_lessons, sv_ret, prior,
                   ever_saved, kb_app, app_state, n_saves>>
    /\ UNCHANGED <<embVars, lexVars, scanVars>>

\* The files and the sync job, with the primary file as given.
InitSync(file) ==
    /\ primary = file
    /\ backup = Missing
    /\ training_log = NoLog
    /\ sv_pc = "idle"
    /\ sv_lessons = <<>>
    /\ sv_ret = "none"
    /\ prior = <<>>
    /\ ever_saved = FALSE
    /\ n_saves = 0

\* Before the first sync, no backend started.
InitStore ==
    /\ InitSync(Missing)
    /\ kb_app = <<>>
    /\ app_state = "down"
    /\ kb_fixed = <<>>
    /\ fixed_state = "down"
    /\ loaded_since = {}

SaveStep ==
    \/ \E lessons \in SampleKBs : SaveBegin(lessons)
    \/ SaveBackup
    \/ SaveOpen
    \/ SaveDump
    \/ SaveLog
    \/ SaveBackupRaise
    \/ SaveOpenRaise
    \/ SaveDumpRaise
    \/ SaveLogRaise
    \/ SaveCrash

\* The sync job and the backend app.py.
NextStore == SaveStep \/ AppStart

InitStoreSpec == InitStore /\ InitEmbWith({<<>>}) /\ InitLex /\ InitScanWith({{}})

SpecStore == InitStoreSpec /\ [][NextStore]_vars

\* The sync job and the backend app_fixed.py.
NextStoreFixed == SaveStep \/ FixedStart

SpecStoreFixed == InitStoreSpec /\ [][NextStoreFixed]_vars

InitEmbSpec == InitEmb /\ InitStore /\ InitLex /\ InitScanWith({{}})

SpecEmb == InitEmbSpec /\ [][NextEmb]_vars

\* app.py serving requests on a snapshot it has loaded.
InitLexSpec ==
    /\ kb_app \in LexKBs
    /\ app_state = "up"
    /\ kb_fixed = <<>>
    /\ fixed_state = "down"
    /\ loaded_since = {"app"}
    /\ InitSync(File(JsonDump(kb_app)))
    /\ InitEmbWith({<<>>})
    /\ InitLex
    /\ InitScanWith({{}})

SpecLex == InitLexSpec /\ [][NextLex]_vars

\* The queries of the requests served at once.
ConcQueries == {<<"z", "z", "z">>,
                <<"I", "n", "t", "r", "o">>,
                <<"d", "a", "t", "a", " ", " ", "L">>}

\* Requests served in two threads at once (app.run, line 271, serves each
\* request in a thread of its own), on snapshots of ConcEntries lessons.
NextLexConc ==
    \/ \E t \in Threads : \E query \in ConcQueries : SearchBegin(t, query)
    \/ \E t \in Threads : SearchEntry(t)
    \/ \E t \in Threads : SearchReturn(t)

InitLexConcSpec ==
    /\ kb_app \in {kb \in SubSeqs(LexLessons) : Len(kb) = ConcEntries}
    /\ app_state = "up"
    /\ kb_fixed = <<>>
    /\ fixed_state = "down"
    /\ loaded_since = {"app"}
    /\ InitSync(File(JsonDump(kb_app)))
    /\ InitEmbWith({<<>>})
    /\ InitLex
    /\ InitScanWith({{}})

SpecLexConc == InitLexConcSpec /\ [][NextLexConc]_vars

\* ---- main (auto_sync_course.py), after the scan

scanLocals == <<sc_pages, sc_pc, sc_p, sc_o, sc_lessons, sc_current, sc_ret, sc_error,
                sc_printed>>

\* A call of save_knowledge_base although the scan returned nothing.
MainSave_WithoutLessons ==
    /\ sc_pc = "done"
    /\ main_rc = NotReturned
    /\ n_saves = 0
    /\ SaveBegin(sc_ret)

\* Lines 201-206: with lessons, save_knowledge_base(lessons) is called.
MainSave ==
    /\ sc_pc = "done"
    /\ sc_ret # <<>>
    /\ main_rc = NotReturned
    /\ n_saves = 0
    /\ SaveBegin(sc_ret)

\* Lines 206-207: save_knowledge_base returned False, status 1.
MainSaveFailed ==
    /\ n_saves = 1 /\ sv_pc = "idle" /\ sv_ret = "False"
    /\ main_rc = NotReturned
    /\ main_rc' = 1
    /\ UNCHANGED <<scanLocals, rs_ret>>
    /\ ScanStep

\* Line 210 and lines 176-186: after save_knowledge_base returned True, pm2
\* restarts the backend, which loads the snapshot (app.py, lines 28-36);
\* restart_backend returns True.
MainRestart ==
    /\ n_saves = 1 /\ sv_pc = "idle" /\ sv_ret = "True"
    /\ main_rc = NotReturned
    /\ rs_ret = "none"
    /\ rs_ret' = "True"
    /\ kb_app' = AppLoad(primary)
    /\ app_state' = "up"
    /\ loaded_since' = loaded_since \cup {"app"}
    /\ relevance_score' = [i \in 1..Len(AppLoad(primary)) |-> NoScore]
    /\ lx_pc' = [t \in Threads |-> "idle"]
    /\ lx_query' = [t \in Threads |-> <<>>]
    /\ lx_i' = [t \in Threads |-> 1]
    /\ lx_results' = [t \in Threads |-> <<>>]
    /\ lx_ret' = [t \in Threads |-> <<>>]
    /\ UNCHANGED <<primary, backup, training_log, sv_pc, sv_lessons, sv_ret, prior,
                   ever_saved, kb_fixed, fixed_state, n_saves>>
    /\ UNCHANGED <<scanLocals, main_rc>>
    /\ UNCHANGED embVars

\* Lines 183-190: pm2 ends with another return code, or subprocess.run
\* raises; restart_backend returns False and the backend is as it was.
MainRestartFailed ==
    /\ n_saves = 1 /\ sv_pc = "idle" /\ sv_ret = "True"
    /\ main_rc = NotReturned
    /\ rs_ret = "none"
    /\ rs_ret' = "False"
    /\ UNCHANGED <<scanLocals, main_rc>>
    /\ ScanStep

\* Lines 212-222: whatever restart_backend returned, status 0.
MainReturn ==
    /\ rs_ret # "none"
    /\ main_rc = NotReturned
    /\ main_rc' = 0
    /\ UNCHANGED <<scanLocals, rs_ret>>
    /\ ScanStep

\* One run of the sync job: scan, save, restart.
NextMain ==
    \/ ScanBegin
    \/ ScanPage
    \/ ScanPageRaise
    \/ ScanObjectStep
    \/ ScanObjectRaise
    \/ ScanFlush
    \/ MainNoLessons
    \/ MainSave
    \/ SaveBackup
    \/ SaveOpen
    \/ SaveDump
    \/ SaveLog
    \/ SaveBackupRaise
    \/ SaveOpenRaise
    \/ SaveDumpRaise
    \/ SaveLogRaise
    \/ MainSaveFailed
    \/ MainRestart
    \/ MainRestartFailed
    \/ MainReturn

\* The sync job is started on one of the namespaces, with no snapshot on
\* disk or with the snapshot of an earlier run that the backend has loaded.
InitMainSpec ==
    /\ InitScanWith(MainNamespaces)
    /\ kb_app \in {<<>>, <<LessonA>>}
    /\ InitSync(IF kb_app = <<>> THEN Missing ELSE File(JsonDump(kb_app)))
    /\ app_state = (IF kb_app = <<>> THEN "down" ELSE "up")
    /\ kb_fixed = <<>>
    /\ fixed_state = "down"
    /\ loaded_since = {}
    /\ InitEmbWith({<<>>})
    /\ InitLex

SpecMain == InitMainSpec /\ [][NextMain]_vars

\* The sync job scanning one of the namespaces.
InitScanSpec == InitScanWith(Namespaces) /\ InitStore /\ InitEmbWith({<<>>}) /\ InitLex

SpecScan == InitScanSpec /\ [][NextScan]_vars

(***************************************************************************)
(* Claims about the knowledge base store.                                  *)
(***************************************************************************)
Complete(file) == file.exists /\ JsonLoads(file.toks).ok

\* C1: when save_knowledge_base has failed (returned False) at any step, a
\* load made afterwards returns the snapshot that a load returned before the
\* save started.
C1_FailedSaveKeepsPrior ==
    (sv_pc = "idle" /\ sv_ret = "False" /\ "app" \in loaded_since) => kb_app = prior

\* C2: after any sequence of saves, each of which may fail or be killed at any
\* step, the primary file is not left partial, and once a save has succeeded a
\* complete snapshot is in the primary file or in the backup file.
C2_NeverCorruptAlwaysRecoverable ==
    sv_pc = "idle" =>
        /\ primary.exists => JsonLoads(primary.toks).ok
        /\ ever_saved => Complete(primary) \/ Complete(backup)

\* C3: after a successful save_knowledge_base(K), a load of the snapshot, by
\* app.py or by app_fixed.py, yields a sequence equal to K, in the same order.
C3_RoundTrip ==
    (sv_pc = "idle" /\ sv_ret = "True") =>
        /\ "app" \in loaded_since => kb_app = sv_lessons
        /\ FixedLoad(primary) = [state |-> "up", kb |-> sv_lessons]

C3_Witness ==
    /\ sv_pc = "idle" /\ sv_ret = "True"
    /\ loaded_since = {"app"}
    /\ Len(sv_lessons) = 2
    /\ Len(sv_lessons[1].videos) > 0
    /\ kb_app = sv_lessons

(***************************************************************************)
(* Claims about the embedding retriever.                                   *)
(***************************************************************************)
\* C4: a retrieve_relevant_context that runs while an upload rebuilds the
\* index reads an index and a corpus that belong together: the vectors it
\* searched are the embeddings of the corpus its loop indexed (stated for runs
\* in which no embedding or index call has raised).
C4_ReaderSeesOnePair ==
    (~any_raised /\ obs_kb # <<>>) => obs_index = Embeds(obs_kb)

\* C5: whenever load_course_materials has returned and no upload is in
\* progress, an index that exists holds as many vectors as the corpus holds
\* documents.
C5_IndexSizeEqualsCorpus ==
    (ld_pc = "done" /\ up_pc = "idle" /\ faiss_index.built) =>
        Len(faiss_index.vecs) = Len(knowledge_base)

\* C6: on a non-empty corpus with its index, and with no upload running during
\* the call, retrieve_relevant_context(query, k) returns at most k documents,
\* fewer than k exactly when the corpus holds fewer than k (and then each
\* document of the corpus once), in order of non-decreasing distance from the
\* encoded query.
C6_VectorSearch ==
    (rd_pc = "done" /\ obs_kb # <<>> /\ rd_clean /\ obs_index = Embeds(obs_kb)) =>
        LET n == Len(obs_kb)
            d(doc) == Dist(Embed(doc.content), Embed(rd_query))
        IN  /\ Len(rd_result) <= rd_k
            /\ (Len(rd_result) < rd_k) <=> (n < rd_k)
            /\ n < rd_k =>
                   \E perm \in [1..n -> 1..n] :
                       /\ \A i, j \in 1..n : perm[i] = perm[j] => i = j
                       /\ rd_result = [i \in 1..n |-> obs_kb[perm[i]]]
            /\ \A i, j \in 1..Len(rd_result) :
                   i < j => d(rd_result[i]) <= d(rd_result[j])

C8_NoMatchGivesEmpty ==
    \A t \in Threads :
        ( /\ lx_pc[t] = "done"
          /\ \A i \in 1..Len(kb_app) :
                 /\ ~NameMatch(kb_app[i], lx_query[t])
                 /\ MatchedTopics(kb_app[i], lx_query[t]) = {} )
        => lx_ret[t] = <<>>


(***************************************************************************)
(* C9: for every listing in key order, the scan returns lessons whose      *)
(* lesson_key is unique, exactly one lesson for each (week folder, lesson  *)
(* folder) pair of the listing, and each lesson holds every classified     *)
(* file whose key lies under its lesson path.                              *)
(***************************************************************************)
ListedKeys ==
    UNION {{sc_pages[p].Contents[o].Key : o \in 1..Len(sc_pages[p].Contents)} :
              p \in 1..Len(sc_pages)}

RelativeParts(key) == Split(Replace(key, S3_COURSE_PATH, <<>>), "/")

InLesson(key) ==
    /\ StartsWith(Replace(key, S3_COURSE_PATH, <<>>), <<"W", "e", "e", "k", "_">>)
    /\ Len(RelativeParts(key)) >= 2
    /\ StartsWith(RelativeParts(key)[2], <<"L">>)

LessonPath(key) == RelativeParts(key)[1] \o <<"/">> \o RelativeParts(key)[2]

FilesOf(lesson_key, extensions) ==
    {key \in ListedKeys :
        /\ InLesson(key)
        /\ LessonPath(key) = lesson_key
        /\ Len(RelativeParts(key)) >= 3
        /\ Lower(Suffix(RelativeParts(key)[3])) \in extensions}

KeysIn(files) == {files[i].s3_key : i \in 1..Len(files)}

C9_OneLessonPerPath ==
    (sc_pc = "done" /\ sc_error = "none") =>
        /\ \A i, j \in 1..Len(sc_ret) : sc_ret[i].lesson_key = sc_ret[j].lesson_key => i = j
        /\ {sc_ret[i].lesson_key : i \in 1..Len(sc_ret)}
               = {LessonPath(key) : key \in {k \in ListedKeys : InLesson(k)}}
        /\ \A i \in 1..Len(sc_ret) :
              /\ KeysIn(sc_ret[i].videos) = FilesOf(sc_ret[i].lesson_key, VIDEO_EXTENSIONS)
              /\ KeysIn(sc_ret[i].slides) = FilesOf(sc_ret[i].lesson_key, IMAGE_EXTENSIONS)
              /\ KeysIn(sc_ret[i].documents) = FilesOf(sc_ret[i].lesson_key, DOCUMENT_EXTENSIONS)
              /\ sc_ret[i].slide_count = Cardinality(FilesOf(sc_ret[i].lesson_key, IMAGE_EXTENSIONS))

(***************************************************************************)
(* C10: when the listing fails, what the caller of the scan receives       *)
(* differs from what it receives for an empty namespace, which is the      *)
(* empty sequence.                                                         *)
(***************************************************************************)
EmptyNamespace == ListedKeys = {}

C10_ListingFailureIsSignalled ==
    sc_pc = "done" =>
        /\ (EmptyNamespace /\ sc_error = "none") => sc_ret = <<>>
        /\ sc_error = "listing" => sc_ret # <<>>

(***************************************************************************)
(* C11: a backend that loads the snapshot while the file is missing or     *)
(* malformed comes up with an empty knowledge base; the process does not   *)
(* end.  Stated for app_fixed.py.                                          *)
(***************************************************************************)
C11_LoadNeverCrashes ==
    ("fixed" \in loaded_since /\ ~Complete(primary)) =>
        /\ fixed_state = "up"
        /\ kb_fixed = <<>>

(***************************************************************************)
(* C12: a search returns what a search with the same query returns on the  *)
(* knowledge base just loaded, whatever searches were made before it: the  *)
(* same lessons, in the same order, holding the same scores.               *)
(***************************************************************************)
FreshScores(query) ==
    [i \in 1..Len(kb_app) |->
        IF Score(kb_app[i], query) > 0 THEN Score(kb_app[i], query) ELSE NoScore]

Positives(query) ==
    SelectSeq([i \in 1..Len(kb_app) |-> i], LAMBDA i : Score(kb_app[i], query) > 0)

FreshSearch(query) == TopMatches(SortByScore(Positives(query), FreshScores(query)))

C12_SearchIsDeterministic ==
    lx_pc[1] = "done" =>
        /\ lx_ret[1] = FreshSearch(lx_query[1])
        /\ \A n \in 1..Len(lx_ret[1]) :
               relevance_score[lx_ret[1][n]] = FreshScores(lx_query[1])[lx_ret[1][n]]

\* A search returned two or more lessons while a lesson held a score from a
\* search with another query.
C12_Witness ==
    /\ lx_pc[1] = "done"
    /\ Len(lx_ret[1]) >= 2
    /\ \E i \in 1..Len(kb_app) :
           /\ relevance_score[i] # NoScore
           /\ relevance_score[i] # Score(kb_app[i], lx_query[1])

(***************************************************************************)
(* C13: after an upload answered with success, the documents a retrieval   *)
(* can return are those it could return when the upload began and the      *)
(* uploaded document, which was not among them; and a retrieval made then  *)
(* with a query nearest to the uploaded document alone returns it.         *)
(***************************************************************************)
Uploaded == up_pc = "idle" /\ up_resp = 200

NearestIsLast(kb, query) ==
    \A i \in 1..(Len(kb) - 1) :
        Dist(Embed(kb[i].content), Embed(query)) > Dist(Embed(kb[Len(kb)].content), Embed(query))

C13_UploadAddsOneCandidate ==
    Uploaded =>
        /\ Len(knowledge_base) \notin up_pool
        /\ Returnable(faiss_index, knowledge_base) = up_pool \cup {Len(knowledge_base)}
        /\ ( /\ rd_pc = "done" /\ rd_clean
             /\ obs_kb = knowledge_base /\ obs_index = faiss_index.vecs
             /\ NearestIsLast(knowledge_base, rd_query) )
           => \E n \in 1..Len(rd_result) : rd_result[n] = knowledge_base[Len(knowledge_base)]

(***************************************************************************)
(* C14: a call of retrieve_relevant_context made while the corpus is empty *)
(* or no index has been built returns the empty sequence at once: the      *)
(* query is not encoded and the index is not searched.                     *)
(***************************************************************************)
C14_NothingSearchedWhenEmpty ==
    [][ \A query \in Queries, top_k \in TopKs :
            ( /\ RetrieveCall(query, top_k)
              /\ (knowledge_base = <<>> \/ ~faiss_index.built) )
            => (rd_pc' = "done" /\ rd_result' = <<>> /\ rd_labels' = <<>>) ]_vars

\* A call has returned while the corpus held documents and no index was built.
C14_Witness ==
    /\ rd_pc = "done"
    /\ rd_result = <<>>
    /\ knowledge_base # <<>>
    /\ ~faiss_index.built

(***************************************************************************)
(* C15: after a save that returned True the training log is that of the    *)
(* snapshot in the primary file: its totals are the number of lessons and  *)
(* the sums of their videos, slides and documents, and its per-week        *)
(* lesson, video and slide counts add up to the totals.                    *)
(***************************************************************************)
RECURSIVE WeekSum(_, _, _)
WeekSum(weeks, names, field) ==
    IF names = {} THEN 0
    ELSE LET w == CHOOSE n \in names : TRUE
         IN  weeks[w][field] + WeekSum(weeks, names \ {w}, field)

C15_TrainingLogMatchesSnapshot ==
    (sv_pc = "idle" /\ sv_ret = "True") =>
        LET snapshot == AppLoad(primary)
            log == training_log.val
        IN  /\ training_log.exists /\ training_log.complete
            /\ snapshot = sv_lessons
            /\ log.total_lessons = Len(snapshot)
            /\ log.total_videos = Sum(VideoCounts(snapshot))
            /\ log.total_slides = Sum(SlideCounts(snapshot))
            /\ log.total_documents = Sum(DocumentCounts(snapshot))
            /\ WeekSum(log.weeks, DOMAIN log.weeks, "lesson_count") = log.total_lessons
            /\ WeekSum(log.weeks, DOMAIN log.weeks, "video_count") = log.total_videos
            /\ WeekSum(log.weeks, DOMAIN log.weeks, "slide_count") = log.total_slides

\* A save of two lessons of two weeks, with a video, a slide and a document,
\* returned True after an earlier save had written another log.
C15_Witness ==
    /\ sv_pc = "idle" /\ sv_ret = "True"
    /\ n_saves >= 2
    /\ Len(sv_lessons) = 2
    /\ Cardinality(DOMAIN training_log.val.weeks) = 2
    /\ training_log.val.total_videos = 1
    /\ training_log.val.total_documents = 1

(***************************************************************************)
(* C16: a chat request whose retrieval raised is answered all the same,    *)
(* with status 200 and no sources.                                         *)
(***************************************************************************)
C16_RetrievalFailureStillAnswered ==
    ch_pc = "failed" => (ch_resp = 200 /\ ch_sources = <<>>)

(***************************************************************************)
(* C17: the score of a lesson for a query is 10 if a token of the          *)
(* lowercased query, split at whitespace, is part of the lowercased lesson *)
(* name, plus 5 for each topic with a keyword in the query and a keyword   *)
(* in the lesson name, plus 2 for a lesson with a video, plus 1 for a      *)
(* lesson with a document; an empty query gets no 10.  Seen when the loop  *)
(* has ended: a lesson is in results holding that score, or the score is 0 *)
(* and the lesson is not in results.                                       *)
(***************************************************************************)
ClaimedScore(entry, query) ==
    LET name == Lower(entry.lesson_name)
        tokens == SplitWhitespace(Lower(query))
        topics == {topic \in DOMAIN topic_keywords :
                      /\ \E kw \in topic_keywords[topic] : Contains(Lower(query), kw)
                      /\ \E kw \in topic_keywords[topic] : Contains(name, kw)}
    IN    (IF \E n \in 1..Len(tokens) : Contains(name, tokens[n]) THEN 10 ELSE 0)
        + 5 * Cardinality(topics)
        + (IF Len(entry.videos) >= 1 THEN 2 ELSE 0)
        + (IF Len(entry.documents) >= 1 THEN 1 ELSE 0)

InResults(t, i) == \E n \in 1..Len(lx_results[t]) : lx_results[t][n] = i

C17_ScoreFormula ==
    lx_pc[1] = "sort" =>
        \A i \in 1..Len(kb_app) :
            LET claimed == ClaimedScore(kb_app[i], lx_query[1])
            IN  /\ claimed > 0 => (InResults(1, i) /\ relevance_score[i] = claimed)
                /\ claimed = 0 => ~InResults(1, i)
                /\ lx_query[1] = <<>> => claimed < 10

\* The loop has ended with a lesson that got all four boosts.
C17_Witness ==
    /\ lx_pc[1] = "sort"
    /\ \E i \in 1..Len(kb_app) :
           /\ InResults(1, i)
           /\ NameMatch(kb_app[i], lx_query[1])
           /\ MatchedTopics(kb_app[i], lx_query[1]) # {}
           /\ kb_app[i].videos # <<>> /\ kb_app[i].documents # <<>>
           /\ relevance_score[i] = 18

(***************************************************************************)
(* C18: the lessons returned are in order of non-increasing score, lessons *)
(* of equal score in the order they have in the knowledge base, and a      *)
(* lesson with a score above 0 that is not returned scores no more than    *)
(* any lesson returned.                                                    *)
(***************************************************************************)
Returned(t, i) == \E n \in 1..Len(lx_ret[t]) : lx_ret[t][n] = i

C18_RankedStableTop ==
    lx_pc[1] = "done" =>
        LET ret == lx_ret[1]
            held(i) == relevance_score[i]
        IN  /\ \A n, m \in 1..Len(ret) :
                   n < m => \/ held(ret[n]) > held(ret[m])
                            \/ (held(ret[n]) = held(ret[m]) /\ ret[n] < ret[m])
            /\ \A i \in 1..Len(kb_app) :
                   (ClaimedScore(kb_app[i], lx_query[1]) > 0 /\ ~Returned(1, i))
                   => \A n \in 1..Len(ret) :
                          \/ held(i) < held(ret[n])
                          \/ (held(i) = held(ret[n]) /\ ret[n] < i)

\* Three lessons were returned and a fourth, of the same score as the last
\* of them, was not.
C18_Witness ==
    /\ lx_pc[1] = "done"
    /\ Len(lx_ret[1]) = 3
    /\ \E i \in 1..Len(kb_app) :
           /\ ~Returned(1, i)
           /\ relevance_score[i] = relevance_score[lx_ret[1][3]]
           /\ relevance_score[i] > 0
           /\ ClaimedScore(kb_app[i], lx_query[1]) = relevance_score[i]

(***************************************************************************)
(* C19: an object whose first segment is not a week folder with a number   *)
(* (Week_abc is none) and an object in a second-level folder that is not a *)
(* lesson folder are each passed over: unless the listing itself fails,    *)
(* the scan returns the lessons it would return were those objects not     *)
(* listed.                                                                 *)
(***************************************************************************)
RECURSIVE Flatten(_)
Flatten(pages) ==
    IF pages = <<>> THEN <<>> ELSE Head(pages).Contents \o Flatten(Tail(pages))

IsWeekFolder(segment) ==
    /\ StartsWith(segment, <<"W", "e", "e", "k", "_">>)
    /\ IntOk(SubSeq(segment, 6, Len(segment)))

Discarded(obj) ==
    LET parts == RelativeParts(obj.Key)
    IN  \/ parts = <<>>
        \/ ~IsWeekFolder(parts[1])
        \/ (Len(parts) >= 3 /\ ~StartsWith(parts[2], <<"L">>))

RECURSIVE ScanOf(_, _, _)
ScanOf(ls, cur, objs) ==
    IF objs = <<>>
    THEN IF cur # <<>> THEN Append(ls, cur[1]) ELSE ls
    ELSE LET r == ScanObject(ls, cur, Head(objs))
         IN  ScanOf(r.lessons, r.current_lesson, Tail(objs))

C19_DiscardedIndividually ==
    (sc_pc = "done" /\ sc_error # "listing") =>
        sc_ret = ScanOf(<<>>, <<>>, SelectSeq(Flatten(sc_pages), LAMBDA obj : ~Discarded(obj)))

(***************************************************************************)
(* C20: a scan that ends without an exception returns the lesson it was    *)
(* building when the listing ended as the last lesson, and returns what it *)
(* would return for the same objects in one page: a lesson whose objects   *)
(* lie on two pages, or on either side of a page without Contents, is one  *)
(* lesson.                                                                 *)
(***************************************************************************)
C20_NoLessonLostAtBoundary ==
    (sc_pc = "done" /\ sc_error = "none") =>
        /\ sc_current # <<>> => (sc_ret # <<>> /\ sc_ret[Len(sc_ret)] = sc_current[1])
        /\ Len(sc_ret) = Len(sc_lessons) + Len(sc_current)
        /\ sc_ret = ScanOf(<<>>, <<>>, Flatten(sc_pages))

\* One lesson was returned, holding three files that were listed on two
\* pages with a page without Contents between them.
C20_Witness ==
    /\ sc_pc = "done" /\ sc_error = "none"
    /\ Len(sc_pages) = 3
    /\ sc_pages[1].has_contents /\ ~sc_pages[2].has_contents /\ sc_pages[3].has_contents
    /\ Len(sc_ret) = 1
    /\ sc_ret[1].slide_count + Len(sc_ret[1].videos) + Len(sc_ret[1].documents) = 3
    /\ \A key \in ListedKeys : InLesson(key) /\ LessonPath(key) = sc_ret[1].lesson_key

(***************************************************************************)
(* C21: every file in a lesson folder that the scan has passed is held by  *)
(* exactly one of videos, slides and documents, in the lesson of its       *)
(* folder and in the sequence its lowercased extension selects, or by none *)
(* when the extension is in none of the three lists; the scan raises on    *)
(* none of them; slide_count is the length of slides in every lesson.      *)
(***************************************************************************)
Categories == {"videos", "slides", "documents"}

CategoryOf(filename) ==
    LET ext == Lower(Suffix(filename))
    IN  IF ext \in VIDEO_EXTENSIONS THEN "videos"
        ELSE IF ext \in IMAGE_EXTENSIONS THEN "slides"
        ELSE IF ext \in DOCUMENT_EXTENSIONS THEN "documents"
        ELSE "none"

\* The objects the loop has passed: the pages before sc_p and the objects
\* before sc_o of page sc_p.
Passed ==
    Flatten(SubSeq(sc_pages, 1, Min(sc_p - 1, Len(sc_pages))))
        \o (IF sc_p <= Len(sc_pages) /\ sc_pages[sc_p].has_contents
            THEN SubSeq(sc_pages[sc_p].Contents, 1, sc_o - 1)
            ELSE <<>>)

\* The lessons the scan holds: those flushed and the one in progress.
Held == sc_lessons \o sc_current

Holders(key) ==
    {h \in (1..Len(Held)) \X Categories \X (1..MaxObjects) :
        /\ h[3] <= Len(Held[h[1]][h[2]])
        /\ Held[h[1]][h[2]][h[3]].s3_key = key}

\* A file in a lesson folder of a week folder.
LessonFile(key) ==
    /\ InLesson(key)
    /\ IsWeekFolder(RelativeParts(key)[1])
    /\ Len(RelativeParts(key)) >= 3

C21_OneCategoryPerFile ==
    /\ \A n \in 1..Len(Passed) :
          LET key == Passed[n].Key
          IN  LessonFile(key) =>
                 LET category == CategoryOf(RelativeParts(key)[3])
                 IN  IF category = "none"
                     THEN Holders(key) = {}
                     ELSE /\ Cardinality(Holders(key)) = 1
                          /\ \A h \in Holders(key) :
                                /\ h[2] = category
                                /\ Held[h[1]].lesson_key = LessonPath(key)
    /\ (sc_pc = "object" /\ LessonFile(sc_pages[sc_p].Contents[sc_o].Key)) =>
          ~ScanObject(sc_lessons, sc_current, sc_pages[sc_p].Contents[sc_o]).error
    /\ \A i \in 1..Len(Held) : Held[i].slide_count = Len(Held[i].slides)
    /\ \A i \in 1..Len(sc_ret) : sc_ret[i].slide_count = Len(sc_ret[i].slides)

\* A scan returned a lesson that holds V.MP4 as its video and slide1.png as
\* its slide, having passed notes.xyz of the same folder.
C21_Witness ==
    /\ sc_pc = "done" /\ sc_error = "none"
    /\ \E i \in 1..Len(sc_ret) :
          /\ KeysIn(sc_ret[i].videos) = {S3_COURSE_PATH \o <<"W", "e", "e", "k", "_", "0", "1", "/", "L", "1", "/", "V", ".", "M", "P", "4">>}
          /\ KeysIn(sc_ret[i].slides) = {S3_COURSE_PATH \o <<"W", "e", "e", "k", "_", "0", "1", "/", "L", "1", "/", "s", "l", "i", "d", "e", "1", ".", "p", "n", "g">>}
          /\ sc_ret[i].slide_count = 1
    /\ (S3_COURSE_PATH \o <<"W", "e", "e", "k", "_", "0", "1", "/", "L", "1", "/", "n", "o", "t", "e", "s", ".", "x", "y", "z">>) \in {Passed[n].Key : n \in 1..Len(Passed)}

(***************************************************************************)
(* C22: of two calls of search_knowledge_base that run at once in two      *)
(* request threads, each returns the lessons, in the order and with the    *)
(* scores, that it returns when it runs alone.                             *)
(***************************************************************************)
ReturnsAsAlone(t) ==
    /\ lx_ret'[t] = FreshSearch(lx_query[t])
    /\ \A n \in 1..Len(lx_ret'[t]) :
           relevance_score'[lx_ret'[t][n]] = FreshScores(lx_query[t])[lx_ret'[t][n]]

C22_ConcurrentSearchesIndependent ==
    [][\A t \in Threads : SearchReturn(t) => ReturnsAsAlone(t)]_vars

(***************************************************************************)
(* C23: in load_course_materials a narration object whose get_object or    *)
(* decode raises is reported and left out, and the loop passes to the next *)
(* object; when the loop has ended the knowledge base holds, in the order  *)
(* of the listing, every narration object that was not reported, and the   *)
(* index that is then built holds the vector of each of them.              *)
(***************************************************************************)
NarrationEntry(obj) ==
    [content |-> obj.body, source |-> LessonName(obj.key), type |-> "lesson"]

RECURSIVE Ingested(_, _)
Ingested(listing, reported) ==
    IF listing = <<>> THEN <<>>
    ELSE LET obj == Head(listing)
             rest == Ingested(Tail(listing), reported)
         IN  IF IsNarration(obj.key) /\ obj.key \notin reported
             THEN <<NarrationEntry(obj)>> \o rest
             ELSE rest

ReportedKeys(reported) == {reported[n] : n \in 1..Len(reported)}

C23_FailedNarrationSkipped ==
    [][/\ ld_pc = "objects" =>
              /\ ld_pc' = (IF ld_i = Len(ld_listing) THEN "index" ELSE "objects")
              /\ ld_i' = ld_i + 1
              /\ knowledge_base' =
                     Ingested(SubSeq(ld_listing, 1, ld_i), ReportedKeys(ld_reported'))
       /\ (ld_pc = "index" /\ ld_pc' = "done") =>
              /\ knowledge_base' = Ingested(ld_listing, ReportedKeys(ld_reported))
              /\ (knowledge_base' # <<>> /\ ~any_raised') =>
                     /\ faiss_index'.built
                     /\ Len(faiss_index'.vecs) = Len(knowledge_base')
                     /\ \A n \in 1..Len(knowledge_base') :
                            faiss_index'.vecs[n] = Embed(knowledge_base'[n].content)
      ]_vars

\* The load has ended after the first narration of the listing was reported
\* and the second appended, and the index holds the vector of the second.
C23_Witness ==
    /\ ld_pc = "done"
    /\ ~any_raised
    /\ Len(ld_reported) = 1
    /\ EndsWith(ld_reported[1], <<"L", "1", "_", "n", "a", "r", "r", "a", "t", "i", "o", "n", ".", "t", "x", "t">>)
    /\ Len(knowledge_base) = 1
    /\ knowledge_base[1].content = "t1"
    /\ faiss_index = IndexFlatL2(<<Embed("t1")>>)
    /\ up_pc = "idle" /\ up_resp = 0

(***************************************************************************)
(* C24: in a run of main the steps are taken in the order scan, save,      *)
(* restart.  save_knowledge_base is called, and the snapshot and its       *)
(* backup change, only after the scan has returned one lesson or more; the *)
(* restart is attempted only after save_knowledge_base has returned True;  *)
(* status 0 is returned only after the restart was attempted.  When the    *)
(* scan has returned no lesson, after an empty listing or after an         *)
(* exception, the only step is the return of status 1, with the files as   *)
(* they were.                                                              *)
(***************************************************************************)
ScanReturnedLessons == sc_pc = "done" /\ sc_ret # <<>>

SaveNotBegun == n_saves = 0 /\ sv_pc = "idle" /\ sv_ret = "none"

SaveReturnedTrue == n_saves = 1 /\ sv_pc = "idle" /\ sv_ret = "True"

C24_ScanSaveRestartInOrder ==
    [][/\ scanLocals' # scanLocals => (SaveNotBegun /\ rs_ret = "none" /\ main_rc = NotReturned)
       /\ <<sv_pc, sv_ret, n_saves>>' # <<sv_pc, sv_ret, n_saves>> =>
              (ScanReturnedLessons /\ rs_ret = "none" /\ main_rc = NotReturned)
       /\ <<primary, backup>>' # <<primary, backup>> =>
              (ScanReturnedLessons /\ sv_lessons = sc_ret /\ rs_ret = "none")
       /\ rs_ret' # rs_ret =>
              (ScanReturnedLessons /\ SaveReturnedTrue /\ main_rc = NotReturned)
       /\ main_rc' # main_rc =>
              /\ main_rc = NotReturned
              /\ main_rc' = (IF rs_ret # "none" THEN 0 ELSE 1)
              /\ rs_ret = "none" =>
                     \/ sc_pc = "done" /\ sc_ret = <<>> /\ SaveNotBegun
                     \/ ScanReturnedLessons /\ sv_pc = "idle" /\ sv_ret = "False"
       /\ (sc_pc = "done" /\ sc_ret = <<>>) =>
              /\ main_rc' = 1
              /\ <<storeVars, scanLocals, rs_ret>>' = <<storeVars, scanLocals, rs_ret>>
      ]_vars

\* A run that found lessons has replaced the snapshot of an earlier run,
\* which is now the backup, has attempted the restart and returned 0.
C24_Witness ==
    /\ main_rc = 0
    /\ rs_ret = "False"
    /\ sc_pc = "done" /\ sc_ret # <<>>
    /\ sv_ret = "True"
    /\ primary = File(JsonDump(sc_ret))
    /\ backup = File(JsonDump(<<LessonA>>))
    /\ primary # backup
====
